---------------------------- MODULE Spec2Model ----------------------------
(***************************************************************************)
(* Model of the Telegram/Minimax bot: the update dispatcher                *)
(* (internal/handler), the wizard session manager (internal/wizard) and    *)
(* the conversation store of the completion client (internal/minimax).     *)
(*                                                                         *)
(* Texts are TLA+ strings handled as the Go code handles them (prefix      *)
(* tests, whitespace splitting, lower-casing, concatenation).  Time is a   *)
(* clock in whole seconds.  One handler invocation is one action: the      *)
(* consumer goroutine of cmd/telegram-bot/main.go runs HandleUpdate for    *)
(* one update at a time.                                                   *)
(***************************************************************************)
EXTENDS Integers, Sequences, FiniteSets, TLC

VARIABLES
    now,              \* wall clock (seconds), what time.Now() returns
    sessions,         \* wizard.Manager.sessions : userID -> Wizard
    conversations,    \* minimax.Client.conversations : userID -> Conversation
    processing,       \* Handler.processing : userID -> bool
    lastMessageTime,  \* Handler.lastMessageTime : userID -> time
    commands,         \* Handler.commands : the names that have a handler
    crashed,          \* the process died of a Go runtime fatal error
    ticks,            \* number of clock advances so far (bounded)
    script,           \* scripted updates still waiting in the update channel
    inflight,         \* handleMessage invocations running side by side: id -> position
    client,           \* telegram.Client: polling fields, plus the goroutines around it
    feed,             \* the Bot API's update stream and what became of each update
    locks,            \* the sync.RWMutex fields of the wizard Manager and of the Handler
    out               \* what the last HandleUpdate invocation did

vars == <<now, sessions, conversations, processing, lastMessageTime, commands,
          crashed, ticks, script, inflight, client, feed, locks, out>>

-----------------------------------------------------------------------------
(* Bounds of the model *)

MaxTicks == 2

\* the user ids known to the model, and those that send updates at will
Users == {1, 2}

Senders == {1}

\* texts of the inbound message updates
MessageTexts ==
    {"", "haiku",
     "/create", "/create poem", "/create sonnet",
     "/create poem -t haiku", "/create poem -t haiku -m rhyme -s formal",
     "/cancel", "/clear", "/status", "/Help", "/nope"}

\* the end-to-end poem scenario
PoemScenario == <<"/create poem", "haiku", "autumn", "calm", "4", "">>

\* texts of the updates users send while the polling pipeline runs
PipelineTexts == {"haiku", "/create poem"}

\* texts of the second and of the first user when two users are served
BystanderTexts == <<"haiku", "/create story", "once", "/create poem", "haiku">>

ActorTexts == {"haiku", "/create poem", "/clear"}

\* command texts sent to the bot while handlers are being registered
CommandTexts == {"/test", "/Uppercase a b", "/PING", "/ping", "/Echo", "/Help", "/nope"}

\* every text the model feeds to the dispatcher
KnownTexts ==
    MessageTexts \cup {PoemScenario[i] : i \in 1..Len(PoemScenario)}
    \cup PipelineTexts \cup {BystanderTexts[i] : i \in 1..Len(BystanderTexts)}
    \cup ActorTexts \cup CommandTexts

-----------------------------------------------------------------------------
(* Go strings package, as far as the code uses it *)

None == [none |-> TRUE]

Char(s, i) == SubSeq(s, i, i)

HasPrefix(s, p) == Len(s) >= Len(p) /\ SubSeq(s, 1, Len(p)) = p

TrimPrefix(s, p) == IF HasPrefix(s, p) THEN SubSeq(s, Len(p) + 1, Len(s)) ELSE s

IsSpace(c) == c \in {" ", "\t", "\n", "\r"}

RECURSIVE TrimLeft(_)
TrimLeft(s) ==
    IF Len(s) > 0 /\ IsSpace(Char(s, 1)) THEN TrimLeft(SubSeq(s, 2, Len(s))) ELSE s

RECURSIVE TrimRight(_)
TrimRight(s) ==
    IF Len(s) > 0 /\ IsSpace(Char(s, Len(s)))
    THEN TrimRight(SubSeq(s, 1, Len(s) - 1)) ELSE s

TrimSpace(s) == TrimRight(TrimLeft(s))

\* strings.Fields: the maximal runs of non-space characters, in order.
\* start is the index where the current run began (0 outside a run).
RECURSIVE FieldsFrom(_, _, _, _)
FieldsFrom(s, i, start, acc) ==
    IF i > Len(s)
    THEN (IF start = 0 THEN acc ELSE Append(acc, SubSeq(s, start, Len(s))))
    ELSE IF IsSpace(Char(s, i))
         THEN FieldsFrom(s, i + 1, 0,
                         IF start = 0 THEN acc ELSE Append(acc, SubSeq(s, start, i - 1)))
         ELSE FieldsFrom(s, i + 1, IF start = 0 THEN i ELSE start, acc)

Fields(s) == FieldsFrom(s, 1, 0, <<>>)

RECURSIVE Join(_, _)
Join(parts, sep) ==
    IF Len(parts) = 0 THEN ""
    ELSE IF Len(parts) = 1 THEN parts[1]
    ELSE parts[1] \o sep \o Join(Tail(parts), sep)

UpperLetters == "ABCDEFGHIJKLMNOPQRSTUVWXYZ"
LowerLetters == "abcdefghijklmnopqrstuvwxyz"

\* upper-case letter -> lower-case letter
LowerOf ==
    [c \in {Char(UpperLetters, i) : i \in 1..26} |->
        Char(LowerLetters, CHOOSE i \in 1..26 : Char(UpperLetters, i) = c)]

LowerChar(c) == IF c \in DOMAIN LowerOf THEN LowerOf[c] ELSE c

RECURSIVE ToLower(_)
ToLower(s) ==
    IF s = "" THEN "" ELSE LowerChar(Char(s, 1)) \o ToLower(SubSeq(s, 2, Len(s)))

Contains(s, sub) ==
    \E i \in 1..(Len(s) + 1) :
        i + Len(sub) - 1 <= Len(s) /\ SubSeq(s, i, i + Len(sub) - 1) = sub

\* strings.SplitN(s, sep, 2) for a one-character separator
SplitN2(s, sep) ==
    IF \E i \in 1..Len(s) : Char(s, i) = sep
    THEN LET i == CHOOSE k \in 1..Len(s) :
                      Char(s, k) = sep /\ \A j \in 1..(k - 1) : Char(s, j) # sep
         IN <<SubSeq(s, 1, i - 1), SubSeq(s, i + 1, Len(s))>>
    ELSE <<s>>

\* a Go map[string]string: reading an absent key yields ""
EmptyMap == [k \in {} |-> ""]

MapGet(m, k) == IF k \in DOMAIN m THEN m[k] ELSE ""

MapSet(m, k, v) == [x \in (DOMAIN m) \cup {k} |-> IF x = k THEN v ELSE m[x]]

MapDelete(m, k) == [x \in (DOMAIN m) \ {k} |-> m[x]]

-----------------------------------------------------------------------------
(* internal/wizard: content types, step tables, prompt templates *)

ContentTypeMarketing == "marketing"
ContentTypeEmail == "email"
ContentTypeReport == "report"
ContentTypeScript == "script"
ContentTypeWhitepaper == "whitepaper"
ContentTypeStory == "story"
ContentTypePoem == "poem"

ContentTypes ==
    {ContentTypeMarketing, ContentTypeEmail, ContentTypeReport, ContentTypeScript,
     ContentTypeWhitepaper, ContentTypeStory, ContentTypePoem}

GetMarketingSteps ==
    <<[Key |-> "website_name",
       Question |-> "What is the name of your website or business?"],
      [Key |-> "website_url",
       Question |-> "What is the URL of your website?"],
      [Key |-> "target_audience",
       Question |-> "Who is your target audience? (e.g., small business owners, tech enthusiasts)"],
      [Key |-> "key_benefits",
       Question |-> "What are the key benefits or features of your product/service?"],
      [Key |-> "tone",
       Question |-> "What tone would you like? (e.g., professional, friendly, urgent, humorous)"],
      [Key |-> "length",
       Question |-> "What length would you like? (short/medium/long)"],
      [Key |-> "topic",
       Question |-> "What specific topic or angle should the marketing copy focus on?"],
      [Key |-> "cta",
       Question |-> "What call-to-action should be included? (e.g., Sign up now, Learn more, Contact us)"]>>

GetEmailSteps ==
    <<[Key |-> "subject",
       Question |-> "What is the subject line of the email?"],
      [Key |-> "recipient",
       Question |-> "Who is the recipient? (e.g., potential customers, existing clients)"],
      [Key |-> "purpose",
       Question |-> "What is the purpose of this email? (e.g., newsletter, promotion, announcement)"],
      [Key |-> "tone",
       Question |-> "What tone would you like? (e.g., formal, casual, friendly)"],
      [Key |-> "key_message",
       Question |-> "What is the key message or offer you want to convey?"],
      [Key |-> "cta",
       Question |-> "What action should the recipient take? (e.g., Click here, Reply, Visit)"]>>

GetReportSteps ==
    <<[Key |-> "title",
       Question |-> "What is the title of the report?"],
      [Key |-> "audience",
       Question |-> "Who is the target audience for this report?"],
      [Key |-> "topic",
       Question |-> "What is the main topic or subject of the report?"],
      [Key |-> "scope",
       Question |-> "What is the scope of the report? (e.g., industry analysis, market research)"],
      [Key |-> "key_points",
       Question |-> "What are the key points or findings to include?"],
      [Key |-> "length",
       Question |-> "What length would you like? (brief/medium/comprehensive)"],
      [Key |-> "format",
       Question |-> "What format would you prefer? (e.g., executive summary, detailed analysis)"]>>

GetScriptSteps ==
    <<[Key |-> "type",
       Question |-> "What type of script? (e.g., video, podcast, advertisement)"],
      [Key |-> "topic",
       Question |-> "What is the main topic or subject?"],
      [Key |-> "duration",
       Question |-> "What is the desired duration? (e.g., 30 seconds, 5 minutes)"],
      [Key |-> "audience",
       Question |-> "Who is the target audience?"],
      [Key |-> "tone",
       Question |-> "What tone would you like? (e.g., serious, humorous, inspirational)"],
      [Key |-> "key_message",
       Question |-> "What is the key message to convey?"],
      [Key |-> "cta",
       Question |-> "What call-to-action should be included?"]>>

GetWhitepaperSteps ==
    <<[Key |-> "title",
       Question |-> "What is the title of the whitepaper?"],
      [Key |-> "topic",
       Question |-> "What is the main topic or research question?"],
      [Key |-> "audience",
       Question |-> "Who is the target audience?"],
      [Key |-> "problem",
       Question |-> "What problem or challenge does it address?"],
      [Key |-> "solution",
       Question |-> "What is the proposed solution or findings?"],
      [Key |-> "length",
       Question |-> "What length would you like? (short/medium/long)"],
      [Key |-> "tone",
       Question |-> "What tone would you like? (e.g., academic, professional, accessible)"]>>

GetStorySteps ==
    <<[Key |-> "genre",
       Question |-> "What genre? (e.g., sci-fi, fantasy, romance, mystery, literary)"],
      [Key |-> "premise",
       Question |-> "What is the premise or plot idea?"],
      [Key |-> "characters",
       Question |-> "Describe the main characters (optional):"],
      [Key |-> "setting",
       Question |-> "What is the setting? (e.g., modern city, medieval kingdom, space station)"],
      [Key |-> "tone",
       Question |-> "What tone? (e.g., dark, uplifting, suspenseful, humorous)"],
      [Key |-> "length",
       Question |-> "What length? (short story/novella/novel excerpt)"]>>

GetPoemSteps ==
    <<[Key |-> "style",
       Question |-> "What style of poem? (e.g., haiku, sonnet, free verse, limerick, ballad)"],
      [Key |-> "topic",
       Question |-> "What is the topic or theme?"],
      [Key |-> "mood",
       Question |-> "What mood? (e.g., melancholy, joyful, reflective, romantic)"],
      [Key |-> "length",
       Question |-> "How many lines? (e.g., 4, 8, 16, 32)"],
      [Key |-> "structure",
       Question |-> "Any specific structure or rhyming scheme? (optional)"]>>

buildMarketingPrompt(answers) ==
    "Create marketing copy with the following details:\n\nWebsite/Business: "
    \o MapGet(answers, "website_name")
    \o "\nURL: "
    \o MapGet(answers, "website_url")
    \o "\nTarget Audience: "
    \o MapGet(answers, "target_audience")
    \o "\nKey Benefits: "
    \o MapGet(answers, "key_benefits")
    \o "\nTone: "
    \o MapGet(answers, "tone")
    \o "\nLength: "
    \o MapGet(answers, "length")
    \o "\nTopic/Angle: "
    \o MapGet(answers, "topic")
    \o "\nCall-to-Action: "
    \o MapGet(answers, "cta")
    \o "\n\nPlease create compelling marketing copy that incorporates all these elements."

buildEmailPrompt(answers) ==
    "Write an email with the following details:\n\nSubject: "
    \o MapGet(answers, "subject")
    \o "\nRecipient: "
    \o MapGet(answers, "recipient")
    \o "\nPurpose: "
    \o MapGet(answers, "purpose")
    \o "\nTone: "
    \o MapGet(answers, "tone")
    \o "\nKey Message: "
    \o MapGet(answers, "key_message")
    \o "\nCall-to-Action: "
    \o MapGet(answers, "cta")
    \o "\n\nPlease create a complete email incorporating all these elements."

buildReportPrompt(answers) ==
    "Create a report with the following details:\n\nTitle: "
    \o MapGet(answers, "title")
    \o "\nTarget Audience: "
    \o MapGet(answers, "audience")
    \o "\nTopic: "
    \o MapGet(answers, "topic")
    \o "\nScope: "
    \o MapGet(answers, "scope")
    \o "\nKey Points: "
    \o MapGet(answers, "key_points")
    \o "\nLength: "
    \o MapGet(answers, "length")
    \o "\nFormat: "
    \o MapGet(answers, "format")
    \o "\n\nPlease create a comprehensive report incorporating all these elements."

buildScriptPrompt(answers) ==
    "Write a script with the following details:\n\nType: "
    \o MapGet(answers, "type")
    \o "\nTopic: "
    \o MapGet(answers, "topic")
    \o "\nDuration: "
    \o MapGet(answers, "duration")
    \o "\nTarget Audience: "
    \o MapGet(answers, "audience")
    \o "\nTone: "
    \o MapGet(answers, "tone")
    \o "\nKey Message: "
    \o MapGet(answers, "key_message")
    \o "\nCall-to-Action: "
    \o MapGet(answers, "cta")
    \o "\n\nPlease create a complete script incorporating all these elements."

buildWhitepaperPrompt(answers) ==
    "Create a whitepaper with the following details:\n\nTitle: "
    \o MapGet(answers, "title")
    \o "\nTopic: "
    \o MapGet(answers, "topic")
    \o "\nTarget Audience: "
    \o MapGet(answers, "audience")
    \o "\nProblem/Challenge: "
    \o MapGet(answers, "problem")
    \o "\nSolution/Findings: "
    \o MapGet(answers, "solution")
    \o "\nLength: "
    \o MapGet(answers, "length")
    \o "\nTone: "
    \o MapGet(answers, "tone")
    \o "\n\nPlease create a comprehensive whitepaper incorporating all these elements."

buildStoryPrompt(answers) ==
    "Write a story with the following details:\n\nGenre: "
    \o MapGet(answers, "genre")
    \o "\nPremise: "
    \o MapGet(answers, "premise")
    \o "\nCharacters: "
    \o MapGet(answers, "characters")
    \o "\nSetting: "
    \o MapGet(answers, "setting")
    \o "\nTone: "
    \o MapGet(answers, "tone")
    \o "\nLength: "
    \o MapGet(answers, "length")
    \o "\n\nPlease create an engaging story incorporating all these elements."

\* buildPoemPrompt that looks the topic up under the key "theme"
buildPoemPromptTheme(answers) ==
    "Write a poem with the following details:\n\nStyle: "
    \o MapGet(answers, "style")
    \o "\nTopic: "
    \o MapGet(answers, "theme")
    \o "\nMood: "
    \o MapGet(answers, "mood")
    \o "\nLength: "
    \o MapGet(answers, "length")
    \o " lines\nStructure: "
    \o MapGet(answers, "structure")
    \o "\n\nPlease create a poem incorporating all these elements."

buildPoemPrompt(answers) ==
    "Write a poem with the following details:\n\nStyle: "
    \o MapGet(answers, "style")
    \o "\nTopic: "
    \o MapGet(answers, "topic")
    \o "\nMood: "
    \o MapGet(answers, "mood")
    \o "\nLength: "
    \o MapGet(answers, "length")
    \o " lines\nStructure: "
    \o MapGet(answers, "structure")
    \o "\n\nPlease create a poem incorporating all these elements."

\* the switch of GetSteps; the default branch returns nil, modelled as << >>
GetSteps(contentType) ==
    CASE contentType = ContentTypeMarketing -> GetMarketingSteps
      [] contentType = ContentTypeEmail -> GetEmailSteps
      [] contentType = ContentTypeReport -> GetReportSteps
      [] contentType = ContentTypeScript -> GetScriptSteps
      [] contentType = ContentTypeWhitepaper -> GetWhitepaperSteps
      [] contentType = ContentTypeStory -> GetStorySteps
      [] contentType = ContentTypePoem -> GetPoemSteps
      [] OTHER -> <<>>

-----------------------------------------------------------------------------
(* internal/wizard: the Wizard object *)

NewWizard(userID, contentType, t) ==
    [UserID |-> userID, ContentType |-> contentType, Answers |-> EmptyMap,
     Step |-> 0, StartedAt |-> t]

GetStep(w) == w.Step

\* SetAnswer that advances the step only when the answer has a key
SetAnswerKeyed(w, key, value) ==
    [w EXCEPT !.Answers = MapSet(w.Answers, key, value),
              !.Step = IF key = "" THEN w.Step ELSE w.Step + 1]

SetAnswer(w, key, value) ==
    [w EXCEPT !.Answers = MapSet(w.Answers, key, value), !.Step = w.Step + 1]

GetAnswers(w) == w.Answers

GetProgress(w) ==
    LET steps == GetSteps(w.ContentType)
    IN IF steps = <<>> THEN ""
       ELSE "(Step " \o ToString(GetStep(w) + 1) \o " of " \o ToString(Len(steps)) \o ")"

GetCurrentQuestion(w) ==
    LET steps == GetSteps(w.ContentType)
    IN IF steps = <<>> THEN ""
       ELSE IF GetStep(w) >= Len(steps) THEN ""
       ELSE steps[GetStep(w) + 1].Question

GetCurrentKeyFirst(w) ==
    LET steps == GetSteps(w.ContentType)
    IN IF steps = <<>> THEN "" ELSE steps[1].Key

GetCurrentKey(w) ==
    LET steps == GetSteps(w.ContentType)
    IN IF steps = <<>> THEN ""
       ELSE IF GetStep(w) >= Len(steps) THEN ""
       ELSE steps[GetStep(w) + 1].Key

\* IsComplete that is off by one (complete only past the last question)
IsCompletePast(w) ==
    LET steps == GetSteps(w.ContentType)
    IN IF steps = <<>> THEN TRUE ELSE GetStep(w) > Len(steps)

IsComplete(w) ==
    LET steps == GetSteps(w.ContentType)
    IN IF steps = <<>> THEN TRUE ELSE GetStep(w) >= Len(steps)

BuildPrompt(w) ==
    LET answers == GetAnswers(w)
    IN CASE w.ContentType = ContentTypeMarketing -> buildMarketingPrompt(answers)
         [] w.ContentType = ContentTypeEmail -> buildEmailPrompt(answers)
         [] w.ContentType = ContentTypeReport -> buildReportPrompt(answers)
         [] w.ContentType = ContentTypeScript -> buildScriptPrompt(answers)
         [] w.ContentType = ContentTypeWhitepaper -> buildWhitepaperPrompt(answers)
         [] w.ContentType = ContentTypeStory -> buildStoryPrompt(answers)
         [] w.ContentType = ContentTypePoem -> buildPoemPrompt(answers)
         [] OTHER -> ""

-----------------------------------------------------------------------------
(* internal/wizard: the session Manager.  m is the sessions map. *)

\* a sync.RWMutex: how many read locks are held, whether the write lock is
\* held, and whether a Lock call has announced itself and waits for the
\* readers to leave
Unlocked == [readers |-> 0, writer |-> FALSE, pending |-> FALSE]

\* the zero-value mutexes of a new Manager (mu) and of a new Handler
\* (processingMu, rateLimitMu)
NewLocks == [mu |-> Unlocked, processingMu |-> Unlocked, rateLimitMu |-> Unlocked]

\* RLock proceeds unless the write lock is held or a writer is waiting
RLockable(rw) == ~rw.writer /\ ~rw.pending

RLock(rw) == [rw EXCEPT !.readers = @ + 1]

\* Lock waits for the writer and for every reader to leave
Lockable(rw) == ~rw.writer /\ rw.readers = 0

\* the first half of Lock: with no other writer about, it announces itself
LockAnnounceable(rw) == ~rw.writer /\ ~rw.pending

LockAnnounce(rw) == [rw EXCEPT !.pending = TRUE]

Lock(rw) == [rw EXCEPT !.writer = TRUE, !.pending = FALSE]

UnlockNot(rw) == rw

Unlock(rw) == [rw EXCEPT !.writer = FALSE]

timeout == 600

StartWizardResume(m, userID, contentType, t) ==
    IF userID \in DOMAIN m THEN m ELSE MapSet(m, userID, NewWizard(userID, contentType, t))

StartWizard(m, userID, contentType, t) ==
    MapSet(m, userID, NewWizard(userID, contentType, t))

\* sync.RWMutex.RUnlock with `readers` read locks held: a fatal runtime
\* error ("sync: RUnlock of unlocked RWMutex") when none is held
RUnlock(readers) ==
    [readers |-> IF readers > 0 THEN readers - 1 ELSE 0, fatal |-> readers <= 0]

\* GetWizard with the age comparison turned around (a session counts as
\* expired while it is younger than the timeout)
GetWizardYoung(m, userID, t, held) ==
    LET locked == held + 1
    IN IF userID \notin DOMAIN m
       THEN [sessions |-> m, wizard |-> None, ok |-> FALSE, expired |-> FALSE,
             fatal |-> RUnlock(locked).fatal]
       ELSE IF t - m[userID].StartedAt < timeout
            THEN LET r1 == RUnlock(locked)
                     m1 == MapDelete(m, userID)
                     r2 == RUnlock(r1.readers)
                 IN [sessions |-> m1, wizard |-> None, ok |-> FALSE,
                     expired |-> TRUE, fatal |-> r1.fatal \/ r2.fatal]
            ELSE [sessions |-> m, wizard |-> m[userID], ok |-> TRUE,
                  expired |-> FALSE, fatal |-> RUnlock(locked).fatal]

\* GetWizard called while `held` other read locks are held on m.mu.  The
\* result carries the sessions map afterwards, the wizard returned (None for
\* nil), the ok flag, and whether the deferred RUnlock was fatal.
GetWizard(m, userID, t, held) ==
    LET locked == held + 1                      \* m.mu.RLock()
    IN IF userID \notin DOMAIN m
       THEN [sessions |-> m, wizard |-> None, ok |-> FALSE, expired |-> FALSE,
             fatal |-> RUnlock(locked).fatal]
       ELSE IF t - m[userID].StartedAt > timeout
            THEN LET r1 == RUnlock(locked)      \* m.mu.RUnlock()
                     m1 == MapDelete(m, userID) \* Lock(); delete; Unlock()
                     r2 == RUnlock(r1.readers)  \* the deferred RUnlock
                 IN [sessions |-> m1, wizard |-> None, ok |-> FALSE,
                     expired |-> TRUE, fatal |-> r1.fatal \/ r2.fatal]
            ELSE [sessions |-> m, wizard |-> m[userID], ok |-> TRUE,
                  expired |-> FALSE, fatal |-> RUnlock(locked).fatal]

EndWizardKeep(m, userID) == m

EndWizard(m, userID) == MapDelete(m, userID)

CancelWizard(m, userID) == EndWizard(m, userID)

\* flagValue(s): s[2:] when s starts with "-" and is longer than 2
flagValue(s) == IF HasPrefix(s, "-") /\ Len(s) > 2 THEN SubSeq(s, 3, Len(s)) ELSE ""

\* first loop of ParseFlags over the whitespace-separated parts
RECURSIVE ParseParts(_, _, _, _, _)
ParseParts(parts, i, flags, remaining, collectArgs) ==
    IF i > Len(parts) THEN [flags |-> flags, remaining |-> remaining]
    ELSE LET part == parts[i]
         IN IF collectArgs
            THEN ParseParts(parts, i + 1, flags, Append(remaining, part), collectArgs)
            ELSE IF HasPrefix(part, "-") /\ Len(part) > 1
            THEN ParseParts(parts, i + 1, MapSet(flags, TrimPrefix(part, "-"), "true"),
                            remaining, collectArgs)
            ELSE IF HasPrefix(part, "-") /\ Len(part) = 1
            THEN ParseParts(parts, i + 1, flags, remaining, TRUE)
            ELSE IF Len(flagValue(part)) > 0
            THEN LET flagParts == SplitN2(part, "=")
                 IN IF Len(flagParts) = 2
                    THEN ParseParts(parts, i + 1, MapSet(flags, flagParts[1], flagParts[2]),
                                    remaining, collectArgs)
                    ELSE ParseParts(parts, i + 1, flags, Append(remaining, part),
                                    collectArgs)
            ELSE ParseParts(parts, i + 1, flags, Append(remaining, part), collectArgs)

\* second loop of ParseFlags: "-flag value" pairs among the remaining parts;
\* i is the Go index (0-based)
RECURSIVE ParsePairs(_, _, _)
ParsePairs(remaining, i, flags) ==
    IF ~(i < Len(remaining) - 1) THEN flags
    ELSE IF HasPrefix(remaining[i + 1], "-")
         THEN ParsePairs(remaining, i + 2,
                         MapSet(flags, TrimPrefix(remaining[i + 1], "-"), remaining[i + 2]))
         ELSE ParsePairs(remaining, i + 1, flags)

\* third loop of ParseFlags: the first remaining part that is not a flag
FirstArg(remaining) ==
    IF \E i \in 1..Len(remaining) : ~HasPrefix(remaining[i], "-")
    THEN remaining[CHOOSE i \in 1..Len(remaining) :
                       /\ ~HasPrefix(remaining[i], "-")
                       /\ \A j \in 1..(i - 1) : HasPrefix(remaining[j], "-")]
    ELSE ""

ParseFlags(input) ==
    LET parts == Fields(TrimPrefix(input, "/"))
        first == ParseParts(parts, 1, EmptyMap, <<>>, FALSE)
        flags == IF Len(first.remaining) >= 2
                 THEN ParsePairs(first.remaining, 0, first.flags)
                 ELSE first.flags
    IN [flags |-> flags, args |-> FirstArg(first.remaining)]

\* the parts of a command text after its leading "/" (handleCommand)
commandParts(msgText) ==
    LET text == TrimSpace(msgText)
    IN Fields(SubSeq(text, 2, Len(text)))

\* the args string handleCommand passes to a command handler
commandArgs(parts) == IF Len(parts) > 1 THEN Join(Tail(parts), " ") ELSE ""

\* commandParts and ParseFlags computed once for the texts of the model
CommandPartsTable == [t \in KnownTexts |-> commandParts(t)]

ParseFlagsTable ==
    [a \in {commandArgs(commandParts(t)) : t \in KnownTexts} |-> ParseFlags(a)]

-----------------------------------------------------------------------------
(* internal/minimax: conversation store and Chat *)

NewConversation == [Messages |-> <<>>, System |-> ""]

\* AddMessage that puts the new message in front
AddMessageFront(c, role, content) ==
    [c EXCEPT !.Messages = <<[Role |-> role, Content |-> content]>> \o c.Messages]

AddMessage(c, role, content) ==
    [c EXCEPT !.Messages = Append(c.Messages, [Role |-> role, Content |-> content])]

GetMessages(c) == c.Messages

Clear(c) == [c EXCEPT !.Messages = <<>>]

SetSystem(c, system) == [c EXCEPT !.System = system]

\* getOrCreateConversation that stores a new conversation on every call
getOrCreateConversationFresh(convs, userID) == MapSet(convs, userID, NewConversation)

\* the conversations map after getOrCreateConversation(userID)
getOrCreateConversation(convs, userID) ==
    IF userID \in DOMAIN convs THEN convs ELSE MapSet(convs, userID, NewConversation)

\* ClearConversation that empties the whole store
ClearConversationAll(convs, userID) == EmptyMap

ClearConversationKeep(convs, userID) == convs

ClearConversation(convs, userID) == MapDelete(convs, userID)

GetConversation(convs, userID) ==
    IF userID \in DOMAIN convs THEN GetMessages(convs[userID]) ELSE <<>>

\* ChatParams.Messages: a nil slice, or a slice with the given items
NilMessages == [isNil |-> TRUE, items |-> <<>>]

MessagesNil(items) == [isNil |-> TRUE, items |-> <<>>]

Messages(items) == [isNil |-> FALSE, items |-> items]

\* Chat for the parameters the handler passes (UserID and Messages).  rsp is
\* what doRequest and the JSON decoding yield if the request is sent.  The
\* result: the conversations map afterwards, the requests put on the wire
\* (with the answer each got), the response's choices and the error ("" = nil).
Chat(convs, userID, paramMessages, rsp) ==
    LET convs1 == IF paramMessages.isNil
                  THEN getOrCreateConversation(convs, userID) ELSE convs
        messages == IF paramMessages.isNil
                    THEN GetMessages(convs1[userID]) ELSE paramMessages.items
        req == [UserID |-> userID, Messages |-> messages, Response |-> rsp]
    IN IF Len(messages) = 0
       THEN [conversations |-> convs1, requests |-> <<>>, choices |-> <<>>,
             err |-> "no messages provided"]
       ELSE IF ~rsp.ok
       THEN [conversations |-> convs1, requests |-> <<req>>, choices |-> <<>>,
             err |-> rsp.err]
       ELSE [conversations |->
                 IF paramMessages.isNil /\ Len(rsp.choices) > 0
                 THEN MapSet(convs1, userID,
                             AddMessage(getOrCreateConversation(convs1, userID)[userID],
                                        "assistant", rsp.choices[1]))
                 ELSE convs1,
             requests |-> <<req>>, choices |-> rsp.choices, err |-> ""]

-----------------------------------------------------------------------------
(* internal/handler *)

rateLimit == 1

MaxMessageLength == 4096

\* the text sendMessage hands to the Telegram client
sendMessage(text) ==
    IF Len(text) > MaxMessageLength
    THEN SubSeq(text, 1, MaxMessageLength - 3) \o "..." ELSE text

\* error returned by the Telegram client when the transport fails
TelegramError == "failed to send request"

\* checkRateLimit that still refuses when exactly the threshold has elapsed
checkRateLimitStrict(h, userID, t) ==
    IF userID \notin DOMAIN h.lastMessageTime THEN TRUE
    ELSE t - h.lastMessageTime[userID] > rateLimit

\* checkRateLimit that ignores the record
checkRateLimitOpen(h, userID, t) ==
    IF userID \notin DOMAIN h.lastMessageTime THEN TRUE
    ELSE t - h.lastMessageTime[userID] >= 0

checkRateLimit(h, userID, t) ==
    IF userID \notin DOMAIN h.lastMessageTime THEN TRUE
    ELSE t - h.lastMessageTime[userID] >= rateLimit

updateRateLimit(h, userID, t) ==
    [h EXCEPT !.lastMessageTime = MapSet(h.lastMessageTime, userID, t)]

isProcessing(h, userID) ==
    IF userID \in DOMAIN h.processing THEN h.processing[userID] ELSE FALSE

\* setProcessing that never lowers the flag
setProcessingSticky(h, userID, p, t) ==
    [h EXCEPT !.processing = MapSet(h.processing, userID, TRUE),
              !.lastMessageTime = IF ~p THEN MapSet(h.lastMessageTime, userID, t)
                                  ELSE h.lastMessageTime]

\* setProcessing that stamps the rate-limit record when the flag is raised
setProcessingStart(h, userID, p, t) ==
    [h EXCEPT !.processing = MapSet(h.processing, userID, p),
              !.lastMessageTime = IF p THEN MapSet(h.lastMessageTime, userID, t)
                                  ELSE h.lastMessageTime]

setProcessing(h, userID, p, t) ==
    [h EXCEPT !.processing = MapSet(h.processing, userID, p),
              !.lastMessageTime = IF ~p THEN MapSet(h.lastMessageTime, userID, t)
                                  ELSE h.lastMessageTime]

\* a handler result that changes nothing and reports nothing
Result(h) ==
    [sessions |-> h.sessions, conversations |-> h.conversations,
     processing |-> h.processing, lastMessageTime |-> h.lastMessageTime,
     route |-> "ignored", calls |-> <<>>, requests |-> <<>>, sent |-> <<>>,
     deleted |-> 0, err |-> "", wiz |-> None, getWizard |-> "none", fatal |-> FALSE]

welcomeText ==
    "Welcome to Minimax Bot!\n\nI'm an AI assistant powered by Minimax. You can talk to me by sending messages.\n\nAvailable commands:\n/start - Show this welcome message\n/clear - Clear conversation history\n/help - Show help information\n/status - Show bot status\n/create - Content creation wizard"

helpText ==
    "Help\n\nYou can communicate with me by sending messages. I'll respond using Minimax AI.\n\nCommands:\n/start - Start the bot\n/clear - Clear conversation history\n/help - Show this help message\n/status - Show bot status\n/create - Content creation wizard\n/cancel - Cancel active wizard\n\nTips:\n- Be specific in your questions\n- Provide context when needed\n- Use follow-up questions for more details"

createHelpText ==
    "Content Creation Wizard\n\nUse /create to start an interactive wizard for creating content.\n\nUsage:\n/create <type> [flags]\n\nContent Types:\n- marketing - Marketing copy\n- email     - Email content\n- report    - Business report\n- script    - Video/podcast script\n- whitepaper - Whitepaper\n- story     - Creative story\n- poem       - Poem\n\nFlags:\n-t <text>  - Quick prompt (bypasses wizard)\n-m <text>  - Message/instructions\n-s <style> - Writing style\n-q          - Quick mode (fewer questions)\n\nExamples:\n/create marketing\n/create email -t newsletter signup\n/create report -s formal\n/create story -q"

ThinkingText == "Thinking..."

\* handleWizardMessage: wiz is the session object GetWizard returned, so
\* SetAnswer changes the object the manager holds
handleWizardMessage(h, msg, wiz, rsp, tg) ==
    LET key == GetCurrentKey(wiz)
        wiz1 == SetAnswer(wiz, key, msg.Text)
        h1 == [h EXCEPT !.sessions = MapSet(h.sessions, msg.From, wiz1)]
    IN IF IsComplete(wiz1)
       THEN LET prompt == BuildPrompt(wiz1)
                h2 == [h1 EXCEPT !.sessions = EndWizard(h1.sessions, msg.From)]
                c == Chat(h2.conversations, msg.From,
                          Messages(<<[Role |-> "user", Content |-> prompt]>>), rsp)
                first == <<sendMessage("Generating content based on your answers...")>>
            IN [Result(h2) EXCEPT
                   !.conversations = c.conversations,
                   !.route = "wizard",
                   !.calls = <<"SetAnswer", "EndWizard", "Chat">>,
                   !.requests = c.requests,
                   !.wiz = wiz1,
                   !.err = c.err,
                   !.sent = IF c.err # ""
                            THEN Append(first,
                                        sendMessage("Error generating content: " \o c.err))
                            ELSE IF Len(c.choices) > 0
                            THEN Append(first, sendMessage(c.choices[1]))
                            ELSE first]
       ELSE [Result(h1) EXCEPT
                !.route = "wizard",
                !.calls = <<"SetAnswer">>,
                !.wiz = wiz1,
                !.sent = <<sendMessage("Got it! " \o GetProgress(wiz1) \o "\n\n"
                                       \o GetCurrentQuestion(wiz1)
                                       \o "\n\n(Type /cancel to cancel the wizard)")>>]

BotUsername == "minimax_bot"

MinimaxModel == "abab5.5-chat"

\* the handler registered for /create
createCommand(h, msg, args, t, rsp, tg) ==
    LET parsed == IF args \in DOMAIN ParseFlagsTable
                  THEN ParseFlagsTable[args] ELSE ParseFlags(args)
        flags == parsed.flags
        contentType == parsed.args
    IN IF contentType = ""
       THEN [Result(h) EXCEPT !.route = "command", !.sent = <<sendMessage(createHelpText)>>]
       ELSE LET m1 == StartWizard(h.sessions, msg.From, contentType, t)
                wiz == m1[msg.From]
                h1 == [h EXCEPT !.sessions = m1]
            IN IF MapGet(flags, "t") # ""
               THEN LET p0 == MapGet(flags, "t")
                        p1 == IF MapGet(flags, "m") # ""
                              THEN MapGet(flags, "m") \o ": " \o p0 ELSE p0
                        prompt == IF MapGet(flags, "s") # ""
                                  THEN p1 \o " (style: " \o MapGet(flags, "s") \o ")"
                                  ELSE p1
                        c == Chat(h1.conversations, msg.From,
                                  Messages(<<[Role |-> "user", Content |-> prompt]>>), rsp)
                        first == <<sendMessage("Generating content...")>>
                    IN [Result(h1) EXCEPT
                           !.conversations = c.conversations,
                           !.route = "command",
                           !.calls = <<"StartWizard", "Chat">>,
                           !.requests = c.requests,
                           !.wiz = wiz,
                           !.err = c.err,
                           !.sent = IF c.err # ""
                                    THEN Append(first, sendMessage("Error: " \o c.err))
                                    ELSE IF Len(c.choices) > 0
                                    THEN Append(first, sendMessage(c.choices[1]))
                                    ELSE first]
               ELSE [Result(h1) EXCEPT
                        !.route = "command",
                        !.calls = <<"StartWizard">>,
                        !.wiz = wiz,
                        !.sent = <<sendMessage("Starting " \o contentType \o " wizard! "
                                               \o GetProgress(wiz) \o "\n\n"
                                               \o GetCurrentQuestion(wiz))>>]

\* the command table built by registerDefaultCommands
\* h.commands after registerDefaultCommands: the names that have a handler
Commands == {"start", "help", "clear", "status", "create", "cancel"}

RegisterCommandVerbatim(registered, name) == registered \cup {name}

\* RegisterCommand(name, handler): the handler is stored under the lowercased name
RegisterCommand(registered, name) == registered \cup {ToLower(name)}

handleCommand(h, msg, t, rsp, tg) ==
    LET parts == IF msg.Text \in DOMAIN CommandPartsTable
                 THEN CommandPartsTable[msg.Text] ELSE commandParts(msg.Text)
    IN IF Len(parts) = 0 THEN [Result(h) EXCEPT !.route = "command"]
       ELSE LET command == ToLower(parts[1])
                args == commandArgs(parts)
                R == [Result(h) EXCEPT !.route = "command"]
            IN CASE command \notin h.commands ->
                        [R EXCEPT !.sent = <<sendMessage("Unknown command: /" \o command)>>]
                 [] command = "start" -> [R EXCEPT !.sent = <<sendMessage(welcomeText)>>]
                 [] command = "help" -> [R EXCEPT !.sent = <<sendMessage(helpText)>>]
                 [] command = "clear" ->
                        [R EXCEPT !.conversations = ClearConversation(h.conversations, msg.From),
                                  !.calls = <<"ClearConversation">>,
                                  !.sent = <<"Conversation history cleared!">>,
                                  !.err = IF tg THEN "" ELSE TelegramError]
                 [] command = "status" ->
                        IF ~tg THEN [R EXCEPT !.err = TelegramError]
                        ELSE [R EXCEPT !.sent =
                                 <<"Bot Status\n\nBot: @" \o BotUsername \o "\nModel: "
                                   \o MinimaxModel \o "\nYour messages in this conversation: "
                                   \o ToString(Len(GetConversation(h.conversations, msg.From)))>>]
                 [] command = "create" -> createCommand(h, msg, args, t, rsp, tg)
                 [] command = "cancel" ->
                        [R EXCEPT !.sessions = CancelWizard(h.sessions, msg.From),
                                  !.calls = <<"CancelWizard">>,
                                  !.sent = <<"Wizard cancelled. Your session has been reset.">>,
                                  !.err = IF tg THEN "" ELSE TelegramError]
                 [] OTHER -> [R EXCEPT !.calls = <<command>>]

\* the completion flow of handleMessage, from setProcessing(true) to the
\* deferred setProcessing(false)
chatFlow(h, msg, t, rsp, rsp2, tg) ==
    LET h1 == setProcessing(h, msg.From, TRUE, t)
        c1 == Chat(h1.conversations, msg.From,
                   Messages(<<[Role |-> "user", Content |-> msg.Text]>>), rsp)
        thinkingMsg == tg
        c2 == Chat(c1.conversations, msg.From, NilMessages, rsp2)
        h2 == setProcessing([h1 EXCEPT !.conversations = c2.conversations],
                            msg.From, FALSE, t)
        first == <<sendMessage(ThinkingText)>>
    IN [Result(h2) EXCEPT
           !.route = "chat",
           !.calls = <<"checkRateLimit", "isProcessing", "setProcessing", "Chat", "Chat",
                       "setProcessing">>,
           !.requests = c1.requests \o c2.requests,
           !.deleted = IF thinkingMsg THEN 1 ELSE 0,
           !.err = c2.err,
           !.sent = IF c2.err # ""
                    THEN Append(first, sendMessage("Sorry, I encountered an error: " \o c2.err))
                    ELSE IF Len(c2.choices) > 0
                    THEN Append(first, sendMessage(c2.choices[1]))
                    ELSE first]

handleMessage(h, msg, t, rsp, rsp2, tg) ==
    IF msg.Text = "" THEN Result(h)
    ELSE IF HasPrefix(msg.Text, "/") THEN handleCommand(h, msg, t, rsp, tg)
    ELSE LET g == GetWizard(h.sessions, msg.From, t, 0)
             h0 == [h EXCEPT !.sessions = g.sessions]
         IN IF g.fatal
            THEN [Result(h0) EXCEPT !.route = "fatal", !.calls = <<"GetWizard">>,
                                    !.getWizard = IF g.expired THEN "expired" ELSE "miss",
                                    !.fatal = TRUE]
            ELSE IF g.ok
            THEN LET r == handleWizardMessage(h0, msg, g.wizard, rsp, tg)
                 IN [r EXCEPT !.calls = <<"GetWizard">> \o r.calls, !.getWizard = "found"]
            ELSE IF ~checkRateLimit(h0, msg.From, t)
            THEN [Result(h0) EXCEPT
                     !.route = "rate_limited",
                     !.getWizard = IF g.expired THEN "expired" ELSE "miss",
                     !.calls = <<"GetWizard", "checkRateLimit">>,
                     !.sent = <<sendMessage("Please wait a moment before sending another message.")>>]
            ELSE IF isProcessing(h0, msg.From)
            THEN [Result(h0) EXCEPT
                     !.route = "busy",
                     !.getWizard = IF g.expired THEN "expired" ELSE "miss",
                     !.calls = <<"GetWizard", "checkRateLimit", "isProcessing">>,
                     !.sent = <<sendMessage("I'm still processing your previous message. Please wait.")>>]
            ELSE LET r == chatFlow(h0, msg, t, rsp, rsp2, tg)
                 IN [r EXCEPT !.calls = <<"GetWizard">> \o r.calls,
                              !.getWizard = IF g.expired THEN "expired" ELSE "miss"]

-----------------------------------------------------------------------------
(* internal/telegram: long polling.  c is the record of the Client's polling
   fields (connected, offset, stopChan), the longPollingLoop goroutine (loop,
   params, updates), the context handed to it (ctx), the caller of
   StopLongPolling parked in wg.Wait (waiting), the consumer goroutine of main
   (consumer) and the outcome of the last Start/StopLongPolling call (api). *)

\* capacity of the update channel made by NewClient
UpdateChannelSize == 100

\* Limit of the GetUpdatesParams the polling loop builds
GetUpdatesLimit == 100

NewTelegramClient ==
    [connected |-> FALSE, offset |-> 0, stopChan |-> "open",
     loop |-> "none", params |-> [Offset |-> 0, Limit |-> GetUpdatesLimit], updates |-> <<>>,
     ctx |-> "live", waiting |-> FALSE, consumer |-> "select", first |-> FALSE,
     api |-> [op |-> "none", err |-> ""]]

NoFeed == [server |-> <<>>, received |-> <<>>, published |-> <<>>, handled |-> <<>>]

\* Go's close(ch): closing a closed channel panics
close(ch) == [ch |-> "closed", panic |-> ch = "closed"]

\* a receive from ctx.Done() or from c.stopChan is ready
Signalled(c) == c.ctx = "done" \/ c.stopChan = "closed"

WaitGroupAny(c) == TRUE

\* wg.Wait() returns: no longPollingLoop goroutine is running
WaitGroupZero(c) == c.loop \in {"none", "returned"}

StartLongPollingUnguarded(c, offset) ==
    [c EXCEPT !.connected = TRUE,
              !.loop = "select",
              !.params = [Offset |-> offset, Limit |-> GetUpdatesLimit],
              !.updates = <<>>,
              !.first = TRUE,
              !.api = [op |-> "StartLongPolling", err |-> ""]]

\* StartLongPolling(ctx, WithOffset(offset)): the new goroutine stands at the
\* top of its loop with the options applied to its params; first tells that
\* it has not sent a getUpdates request yet
StartLongPolling(c, offset) ==
    IF c.connected
    THEN [c EXCEPT !.api = [op |-> "StartLongPolling",
                            err |-> "long polling already started"]]
    ELSE [c EXCEPT !.connected = TRUE,
                   !.loop = "select",
                   !.params = [Offset |-> offset, Limit |-> GetUpdatesLimit],
                   !.updates = <<>>,
                   !.first = TRUE,
                   !.api = [op |-> "StartLongPolling", err |-> ""]]

\* StopLongPolling up to wg.Wait(): the close of the stop channel
StopLongPolling(c) ==
    IF ~c.connected
    THEN [c EXCEPT !.api = [op |-> "StopLongPolling", err |-> "long polling not started"]]
    ELSE [c EXCEPT !.stopChan = close(c.stopChan).ch,
                   !.waiting = TRUE,
                   !.api = [op |-> "StopLongPolling", err |-> "waiting"]]

\* StopLongPolling after wg.Wait() has returned
StopLongPollingReturn(c) ==
    [c EXCEPT !.connected = FALSE, !.waiting = FALSE,
              !.api = [op |-> "StopLongPolling", err |-> ""]]

NextOffsetSame(update) == update.UpdateID

\* c.offset = update.UpdateID + 1
NextOffset(update) == update.UpdateID + 1

PublishFront(ch, update) == <<update>> \o ch

\* c.updateCh <- update
Publish(ch, update) == Append(ch, update)

UpdateIDs(updates) == [i \in 1..Len(updates) |-> updates[i].UpdateID]

\* the updates the Bot API holds from the offset on
Pending(server, offset) == SelectSeq(server, LAMBDA upd : upd.UpdateID >= offset)

Min(a, b) == IF a < b THEN a ELSE b

\* what one successful getUpdates call may return: the first updates, in id
\* order, of those not below the offset, at most Limit of them, none when the
\* long poll times out
GetUpdates(server, params) ==
    {SubSeq(Pending(server, params.Offset), 1, n) :
        n \in 0..Min(params.Limit, Len(Pending(server, params.Offset)))}

-----------------------------------------------------------------------------
(* The dispatcher as a state machine *)

\* what the completion backend can answer to one request
ReplyText == "Here is your text."

Responses ==
    {[ok |-> TRUE, choices |-> <<ReplyText>>, err |-> ""],
     [ok |-> TRUE, choices |-> <<>>, err |-> ""],
     [ok |-> FALSE, choices |-> <<>>,
      err |-> "minimax API error (500): server_error - overloaded"]}

NoOut ==
    [user |-> 0, text |-> "", route |-> "none", calls |-> <<>>, requests |-> <<>>,
     sent |-> <<>>, deleted |-> 0, err |-> "", wiz |-> None, getWizard |-> "none"]

Handler ==
    [sessions |-> sessions, conversations |-> conversations,
     processing |-> processing, lastMessageTime |-> lastMessageTime,
     commands |-> commands]

Init ==
    /\ now = 0
    /\ sessions = EmptyMap
    /\ conversations = EmptyMap
    /\ processing = EmptyMap
    /\ lastMessageTime = EmptyMap
    /\ crashed = FALSE
    /\ ticks = 0
    /\ script = <<>>
    /\ inflight = EmptyMap
    /\ client = NewTelegramClient
    /\ feed = NoFeed
    /\ locks = NewLocks
    /\ commands = Commands
    /\ out = NoOut

\* the consumer hands one message update to HandleUpdate, which runs to its end
HandleUpdate(u, text, rsp, rsp2, tg) ==
    /\ ~crashed
    /\ \E r \in {handleMessage(Handler, [From |-> u, Text |-> text], now, rsp, rsp2, tg)} :
          /\ sessions' = r.sessions
          /\ conversations' = r.conversations
          /\ processing' = r.processing
          /\ lastMessageTime' = r.lastMessageTime
          /\ crashed' = r.fatal
          /\ out' = [user |-> u, text |-> text, route |-> r.route, calls |-> r.calls,
                     requests |-> r.requests, sent |-> r.sent, deleted |-> r.deleted,
                     err |-> r.err, wiz |-> r.wiz, getWizard |-> r.getWizard]
    /\ UNCHANGED <<locks, commands, now, ticks, inflight>>

\* an update from any user with any text arrives and is handled
Receive ==
    /\ script = <<>>
    /\ \E u \in Senders, text \in MessageTexts, rsp \in Responses, rsp2 \in Responses,
          tg \in BOOLEAN :
           HandleUpdate(u, text, rsp, rsp2, tg)
    /\ UNCHANGED <<script, client, feed>>

\* the next update of the scripted scenario is handled
Replay ==
    /\ script # <<>>
    /\ \E rsp \in Responses, rsp2 \in Responses, tg \in BOOLEAN :
           HandleUpdate(Head(script).user, Head(script).text, rsp, rsp2, tg)
    /\ script' = Tail(script)
    /\ UNCHANGED <<client, feed>>

\* time passes
Tick ==
    /\ ~crashed
    /\ ticks < MaxTicks
    /\ \E d \in {rateLimit, timeout} : now' = now + d
    /\ ticks' = ticks + 1
    /\ UNCHANGED <<locks, commands, client, feed, sessions, conversations, processing, lastMessageTime, crashed,
                   script, inflight, out>>

Next == Receive \/ Tick

Spec == Init /\ [][Next]_vars

\* one user plays the poem scenario, at any pace, against any backend
InitScenario ==
    /\ now = 0
    /\ sessions = EmptyMap
    /\ conversations = EmptyMap
    /\ processing = EmptyMap
    /\ lastMessageTime = EmptyMap
    /\ crashed = FALSE
    /\ ticks = 0
    /\ \E u \in Users :
           script = [i \in 1..Len(PoemScenario) |-> [user |-> u, text |-> PoemScenario[i]]]
    /\ inflight = EmptyMap
    /\ client = NewTelegramClient
    /\ feed = NoFeed
    /\ locks = NewLocks
    /\ commands = Commands
    /\ out = NoOut

NextScenario == Replay \/ Tick

SpecScenario == InitScenario /\ [][NextScenario]_vars

-----------------------------------------------------------------------------
(* internal/wizard driven directly: sessions of every content type *)

\* the words a user answers with; the answer to the k-th question is a word
\* followed by k
AnswerWords == {"red", "blue"}

NoWizardOut == [op |-> "none", user |-> 0, wiz |-> None, prompt |-> "", given |-> <<>>]

InitWizard ==
    /\ now = 0
    /\ sessions = EmptyMap
    /\ conversations = EmptyMap
    /\ processing = EmptyMap
    /\ lastMessageTime = EmptyMap
    /\ crashed = FALSE
    /\ ticks = 0
    /\ script = <<>>
    /\ inflight = EmptyMap
    /\ client = NewTelegramClient
    /\ feed = NoFeed
    /\ locks = NewLocks
    /\ commands = Commands
    /\ out = NoWizardOut

\* Manager.StartWizard for one of the defined content types
WizardStart(u, contentType) ==
    /\ sessions' = StartWizard(sessions, u, contentType, now)
    /\ out' = [op |-> "StartWizard", user |-> u, wiz |-> sessions'[u], prompt |-> "",
               given |-> <<>>]
    /\ UNCHANGED <<locks, commands, client, feed, now, conversations, processing, lastMessageTime, crashed, ticks,
                   script, inflight>>

\* the wizard part of handleWizardMessage: SetAnswer under the current key, and
\* on completion BuildPrompt and EndWizard
WizardAnswer(u, word) ==
    /\ u \in DOMAIN sessions
    /\ LET wiz == sessions[u]
           value == word \o ToString(GetStep(wiz) + 1)
           wiz1 == SetAnswer(wiz, GetCurrentKey(wiz), value)
       IN /\ sessions' = IF IsComplete(wiz1) THEN EndWizard(sessions, u)
                         ELSE MapSet(sessions, u, wiz1)
          /\ out' = [op |-> "SetAnswer", user |-> u, wiz |-> wiz1,
                     prompt |-> IF IsComplete(wiz1) THEN BuildPrompt(wiz1) ELSE "",
                     given |-> Append(out.given, value)]
    /\ UNCHANGED <<locks, commands, client, feed, now, conversations, processing, lastMessageTime, crashed, ticks,
                   script, inflight>>

NextWizard ==
    \/ \E u \in Senders, contentType \in ContentTypes : WizardStart(u, contentType)
    \/ \E u \in Senders, word \in AnswerWords : WizardAnswer(u, word)

SpecWizard == InitWizard /\ [][NextWizard]_vars

-----------------------------------------------------------------------------
(* handleMessage called from several goroutines: the free-text path of users
   without a wizard session, one action per lock-protected step *)

Invocations == {1, 2}

NoConcurrentOut == [event |-> "none", inv |-> 0, user |-> 0, since |-> 0, err |-> ""]

InitConcurrent ==
    /\ now = 0
    /\ sessions = EmptyMap
    /\ conversations = EmptyMap
    /\ processing = EmptyMap
    /\ lastMessageTime = EmptyMap
    /\ crashed = FALSE
    /\ ticks = 0
    /\ script = <<>>
    /\ inflight = EmptyMap
    /\ client = NewTelegramClient
    /\ feed = NoFeed
    /\ locks = NewLocks
    /\ commands = Commands
    /\ out = NoConcurrentOut

\* the invocation reaches pc
Goto(i, pc) == inflight' = [inflight EXCEPT ![i].pc = pc]

\* the invocation returns
Return(i, event, err) ==
    /\ inflight' = MapDelete(inflight, i)
    /\ out' = [event |-> event, inv |-> i, user |-> inflight[i].user,
               since |-> inflight[i].since, err |-> err]

\* handleMessage is entered with a free text; GetWizard finds no session
ConcEnter(i, u) ==
    /\ i \notin DOMAIN inflight
    /\ ~GetWizard(sessions, u, now, 0).ok
    /\ inflight' = MapSet(inflight, i, [user |-> u, pc |-> "checkRateLimit", since |-> now])
    /\ UNCHANGED <<locks, commands, client, feed, now, sessions, conversations, processing, lastMessageTime, crashed,
                   ticks, script, out>>

\* if !h.checkRateLimit(msg.From.ID) { notice; return nil }
ConcCheckRateLimit(i) ==
    /\ i \in DOMAIN inflight
    /\ inflight[i].pc = "checkRateLimit"
    /\ IF checkRateLimit(Handler, inflight[i].user, now)
       THEN Goto(i, "isProcessing") /\ UNCHANGED out
       ELSE Return(i, "rate_limited", "")
    /\ UNCHANGED <<locks, commands, client, feed, now, sessions, conversations, processing, lastMessageTime, crashed,
                   ticks, script>>

\* if h.isProcessing(msg.From.ID) { notice; return nil }
ConcIsProcessing(i) ==
    /\ i \in DOMAIN inflight
    /\ inflight[i].pc = "isProcessing"
    /\ IF isProcessing(Handler, inflight[i].user)
       THEN Return(i, "busy", "")
       ELSE Goto(i, "setProcessing") /\ UNCHANGED out
    /\ UNCHANGED <<locks, commands, client, feed, now, sessions, conversations, processing, lastMessageTime, crashed,
                   ticks, script>>

\* h.setProcessing(msg.From.ID, true)
ConcSetProcessing(i) ==
    /\ i \in DOMAIN inflight
    /\ inflight[i].pc = "setProcessing"
    /\ \E h \in {setProcessing(Handler, inflight[i].user, TRUE, now)} :
           /\ processing' = h.processing
           /\ lastMessageTime' = h.lastMessageTime
    /\ Goto(i, "flow")
    /\ UNCHANGED <<locks, commands, client, feed, now, sessions, conversations, crashed, ticks, script, out>>

\* the completion flow: both Chat calls and the messages around them
ConcFlow(i, rsp, rsp2) ==
    /\ i \in DOMAIN inflight
    /\ inflight[i].pc = "flow"
    /\ \E c1 \in {Chat(conversations, inflight[i].user,
                       Messages(<<[Role |-> "user", Content |-> "haiku"]>>), rsp)} :
       \E c2 \in {Chat(c1.conversations, inflight[i].user, NilMessages, rsp2)} :
           /\ conversations' = c2.conversations
           /\ inflight' = [inflight EXCEPT ![i].pc = IF c2.err # "" THEN "deferred_error"
                                                     ELSE "deferred"]
    /\ UNCHANGED <<locks, commands, client, feed, now, sessions, processing, lastMessageTime, crashed, ticks, script, out>>

\* the deferred h.setProcessing(msg.From.ID, false) runs and handleMessage returns
ConcDeferred(i) ==
    /\ i \in DOMAIN inflight
    /\ inflight[i].pc \in {"deferred", "deferred_error"}
    /\ \E h \in {setProcessing(Handler, inflight[i].user, FALSE, now)} :
           /\ processing' = h.processing
           /\ lastMessageTime' = h.lastMessageTime
    /\ Return(i, "done", IF inflight[i].pc = "deferred_error" THEN "error" ELSE "")
    /\ UNCHANGED <<locks, commands, client, feed, now, sessions, conversations, crashed, ticks, script>>

NextConcurrent ==
    \/ \E i \in Invocations, u \in Users : ConcEnter(i, u)
    \/ \E i \in Invocations : ConcCheckRateLimit(i)
    \/ \E i \in Invocations : ConcIsProcessing(i)
    \/ \E i \in Invocations : ConcSetProcessing(i)
    \/ \E i \in Invocations, rsp \in Responses, rsp2 \in Responses : ConcFlow(i, rsp, rsp2)
    \/ \E i \in Invocations : ConcDeferred(i)
    \/ Tick

SpecConcurrent == InitConcurrent /\ [][NextConcurrent]_vars

-----------------------------------------------------------------------------
(* The handler's rate limiter driven directly *)

NoRateOut == [op |-> "none", user |-> 0, allowed |-> TRUE]

InitRateLimit ==
    /\ now = 0
    /\ sessions = EmptyMap
    /\ conversations = EmptyMap
    /\ processing = EmptyMap
    /\ lastMessageTime = EmptyMap
    /\ crashed = FALSE
    /\ ticks = 0
    /\ script = <<>>
    /\ inflight = EmptyMap
    /\ client = NewTelegramClient
    /\ feed = NoFeed
    /\ locks = NewLocks
    /\ commands = Commands
    /\ out = NoRateOut

\* h.checkRateLimit(u)
RateCheck(u) ==
    /\ out' = [op |-> "checkRateLimit", user |-> u,
               allowed |-> checkRateLimit(Handler, u, now)]
    /\ UNCHANGED <<locks, commands, client, feed, now, sessions, conversations, processing, lastMessageTime, crashed,
                   ticks, script, inflight>>

\* h.updateRateLimit(u)
RateUpdate(u) ==
    /\ lastMessageTime' = updateRateLimit(Handler, u, now).lastMessageTime
    /\ out' = [op |-> "updateRateLimit", user |-> u, allowed |-> TRUE]
    /\ UNCHANGED <<locks, commands, client, feed, now, sessions, conversations, processing, crashed, ticks, script,
                   inflight>>

NextRateLimit ==
    \/ \E u \in Users : RateCheck(u)
    \/ \E u \in Users : RateUpdate(u)
    \/ Tick

SpecRateLimit == InitRateLimit /\ [][NextRateLimit]_vars

-----------------------------------------------------------------------------
(* internal/minimax: the conversation store driven directly *)

MaxMessages == 2

Roles == {"user", "assistant"}

Contents == {"hi", "yo"}

SystemPrompts == {"be brief"}

NoStoreOut ==
    [op |-> "none", user |-> 0, role |-> "", content |-> "", result |-> <<>>, err |-> ""]

InitStore ==
    /\ now = 0
    /\ sessions = EmptyMap
    /\ conversations = EmptyMap
    /\ processing = EmptyMap
    /\ lastMessageTime = EmptyMap
    /\ crashed = FALSE
    /\ ticks = 0
    /\ script = <<>>
    /\ inflight = EmptyMap
    /\ client = NewTelegramClient
    /\ feed = NoFeed
    /\ locks = NewLocks
    /\ commands = Commands
    /\ out = NoStoreOut

StoreOut(op, u, result) == [NoStoreOut EXCEPT !.op = op, !.user = u, !.result = result]

\* c.getOrCreateConversation(u)
StoreGetOrCreate(u) ==
    /\ conversations' = getOrCreateConversation(conversations, u)
    /\ out' = StoreOut("getOrCreateConversation", u, GetMessages(conversations'[u]))
    /\ UNCHANGED <<locks, commands, client, feed, now, sessions, processing, lastMessageTime, crashed, ticks, script,
                   inflight>>

\* c.getOrCreateConversation(u).AddMessage(role, content)
StoreAddMessage(u, role, content) ==
    /\ Len(GetConversation(conversations, u)) < MaxMessages
    /\ \E convs \in {getOrCreateConversation(conversations, u)} :
           conversations' = MapSet(convs, u, AddMessage(convs[u], role, content))
    /\ out' = [StoreOut("AddMessage", u, GetMessages(conversations'[u]))
                  EXCEPT !.role = role, !.content = content]
    /\ UNCHANGED <<locks, commands, client, feed, now, sessions, processing, lastMessageTime, crashed, ticks, script,
                   inflight>>

\* conv.SetSystem(system) on a stored conversation
StoreSetSystem(u, system) ==
    /\ u \in DOMAIN conversations
    /\ conversations' = MapSet(conversations, u, SetSystem(conversations[u], system))
    /\ out' = StoreOut("SetSystem", u, GetMessages(conversations'[u]))
    /\ UNCHANGED <<locks, commands, client, feed, now, sessions, processing, lastMessageTime, crashed, ticks, script,
                   inflight>>

\* conv.Clear() on a stored conversation, then conv.GetMessages()
StoreClear(u) ==
    /\ u \in DOMAIN conversations
    /\ conversations' = MapSet(conversations, u, Clear(conversations[u]))
    /\ out' = StoreOut("Clear", u, GetMessages(conversations'[u]))
    /\ UNCHANGED <<locks, commands, client, feed, now, sessions, processing, lastMessageTime, crashed, ticks, script,
                   inflight>>

\* c.ClearConversation(u)
StoreClearConversation(u) ==
    /\ conversations' = ClearConversation(conversations, u)
    /\ out' = StoreOut("ClearConversation", u, <<>>)
    /\ UNCHANGED <<locks, commands, client, feed, now, sessions, processing, lastMessageTime, crashed, ticks, script,
                   inflight>>

\* c.GetConversation(u)
StoreGetConversation(u) ==
    /\ out' = StoreOut("GetConversation", u, GetConversation(conversations, u))
    /\ UNCHANGED <<locks, commands, client, feed, now, sessions, conversations, processing, lastMessageTime, crashed,
                   ticks, script, inflight>>

NextStore ==
    \/ \E u \in Users : StoreGetOrCreate(u)
    \/ \E u \in Users, role \in Roles, content \in Contents : StoreAddMessage(u, role, content)
    \/ \E u \in Users, system \in SystemPrompts : StoreSetSystem(u, system)
    \/ \E u \in Users : StoreClear(u)
    \/ \E u \in Users : StoreClearConversation(u)
    \/ \E u \in Users : StoreGetConversation(u)

SpecStore == InitStore /\ [][NextStore]_vars

-----------------------------------------------------------------------------
(* The running program of cmd/telegram-bot: the polling loop of the telegram
   client fills the update channel (script), the consumer goroutine of main
   drains it into HandleUpdate.  feed records the updates the Bot API holds
   and the ids received by the loop, published to the channel and handed to
   the handler, in order. *)

MaxUpdates == 2

\* the WithOffset option given to StartLongPolling
StartOffsets == {0, 2}

\* update ids grow, not always by one
UpdateIDGaps == {1, 2}

LastUpdateID(server) == IF server = <<>> THEN 0 ELSE server[Len(server)].UpdateID

\* a user sends a message: the Bot API holds it as an update under a fresh id
Arrive ==
    /\ ~crashed
    /\ Len(feed.server) < MaxUpdates
    /\ \E u \in Senders, text \in PipelineTexts, gap \in UpdateIDGaps :
           feed' = [feed EXCEPT !.server =
                       Append(@, [UpdateID |-> LastUpdateID(feed.server) + gap,
                                  user |-> u, text |-> text])]
    /\ UNCHANGED <<locks, commands, now, sessions, conversations, processing, lastMessageTime, crashed,
                   ticks, script, inflight, client, out>>

\* main (or any caller) calls StartLongPolling
CallStartLongPolling ==
    /\ ~crashed
    /\ ~client.waiting
    /\ \E offset \in StartOffsets : client' = StartLongPolling(client, offset)
    /\ UNCHANGED <<locks, commands, now, sessions, conversations, processing, lastMessageTime, crashed,
                   ticks, script, inflight, feed, out>>

\* the caller calls StopLongPolling and, past the guard, closes the stop channel
CallStopLongPolling ==
    /\ ~crashed
    /\ ~client.waiting
    /\ client' = StopLongPolling(client)
    /\ crashed' = (client.connected /\ close(client.stopChan).panic)
    /\ UNCHANGED <<locks, commands, now, sessions, conversations, processing, lastMessageTime,
                   ticks, script, inflight, feed, out>>

\* wg.Wait() returns and StopLongPolling finishes
ReturnStopLongPolling ==
    /\ ~crashed
    /\ client.waiting
    /\ WaitGroupZero(client)
    /\ client' = StopLongPollingReturn(client)
    /\ UNCHANGED <<locks, commands, now, sessions, conversations, processing, lastMessageTime, crashed,
                   ticks, script, inflight, feed, out>>

\* cancel() of the context given to StartLongPolling and to the consumer
Cancel ==
    /\ ~crashed
    /\ client.ctx = "live"
    /\ client' = [client EXCEPT !.ctx = "done"]
    /\ UNCHANGED <<locks, commands, now, sessions, conversations, processing, lastMessageTime, crashed,
                   ticks, script, inflight, feed, out>>

\* longPollingLoop, top of the loop: leave on a signal, otherwise send the
\* next getUpdates request with the client's offset
LoopSelect ==
    /\ ~crashed
    /\ client.loop = "select"
    /\ client' = IF Signalled(client)
                 THEN [client EXCEPT !.loop = "returned"]
                 ELSE [client EXCEPT !.params.Offset = client.offset,
                                     !.first = FALSE,
                                     !.loop = "GetUpdates"]
    /\ UNCHANGED <<locks, commands, now, sessions, conversations, processing, lastMessageTime, crashed,
                   ticks, script, inflight, feed, out>>

\* longPollingLoop: the getUpdates call returns a batch or an error
LoopGetUpdates ==
    /\ ~crashed
    /\ client.loop = "GetUpdates"
    /\ \/ \E updates \in GetUpdates(feed.server, client.params) :
             /\ client' = [client EXCEPT !.updates = updates, !.loop = "range"]
             /\ feed' = [feed EXCEPT !.received = @ \o UpdateIDs(updates)]
       \/ /\ client' = [client EXCEPT !.loop = IF Signalled(client)
                                               THEN "returned" ELSE "Sleep"]
          /\ UNCHANGED feed
    /\ UNCHANGED <<locks, commands, now, sessions, conversations, processing, lastMessageTime, crashed,
                   ticks, script, inflight, out>>

LoopSleepRetry ==
    /\ ~crashed
    /\ client.loop = "Sleep"
    /\ client' = [client EXCEPT !.loop = "GetUpdates"]
    /\ UNCHANGED <<locks, commands, now, sessions, conversations, processing, lastMessageTime, crashed,
                   ticks, script, inflight, feed, out>>

\* longPollingLoop after a failed call: time.Sleep(time.Second); continue
LoopSleep ==
    /\ ~crashed
    /\ client.loop = "Sleep"
    /\ client' = [client EXCEPT !.loop = "select"]
    /\ UNCHANGED <<locks, commands, now, sessions, conversations, processing, lastMessageTime, crashed,
                   ticks, script, inflight, feed, out>>

LoopRangeSendOnly ==
    /\ ~crashed
    /\ client.loop = "range"
    /\ \/ /\ client.updates = <<>>
          /\ client' = [client EXCEPT !.loop = "select"]
          /\ UNCHANGED <<script, feed>>
       \/ /\ client.updates # <<>>
          /\ Len(script) < UpdateChannelSize
          /\ script' = Publish(script, Head(client.updates))
          /\ client' = [client EXCEPT !.offset = NextOffset(Head(client.updates)),
                                      !.updates = Tail(@)]
          /\ feed' = [feed EXCEPT !.published = Append(@, Head(client.updates).UpdateID)]
    /\ UNCHANGED <<locks, commands, now, sessions, conversations, processing, lastMessageTime, crashed,
                   ticks, inflight, out>>

\* longPollingLoop: one turn of the range over the batch
LoopRange ==
    /\ ~crashed
    /\ client.loop = "range"
    /\ \/ /\ client.updates = <<>>
          /\ client' = [client EXCEPT !.loop = "select"]
          /\ UNCHANGED <<script, feed>>
       \/ /\ client.updates # <<>>
          /\ Len(script) < UpdateChannelSize
          /\ script' = Publish(script, Head(client.updates))
          /\ client' = [client EXCEPT !.offset = NextOffset(Head(client.updates)),
                                      !.updates = Tail(@)]
          /\ feed' = [feed EXCEPT !.published = Append(@, Head(client.updates).UpdateID)]
       \/ /\ client.updates # <<>>
          /\ Signalled(client)
          /\ client' = [client EXCEPT !.offset = NextOffset(Head(client.updates)),
                                      !.updates = <<>>,
                                      !.loop = "returned"]
          /\ UNCHANGED <<script, feed>>
    /\ UNCHANGED <<locks, commands, now, sessions, conversations, processing, lastMessageTime, crashed,
                   ticks, inflight, out>>

\* the consumer goroutine receives the next update and runs HandleUpdate on it
Consume ==
    /\ client.consumer = "select"
    /\ script # <<>>
    /\ \E rsp \in Responses, rsp2 \in Responses, tg \in BOOLEAN :
           HandleUpdate(Head(script).user, Head(script).text, rsp, rsp2, tg)
    /\ script' = Tail(script)
    /\ feed' = [feed EXCEPT !.handled = Append(@, Head(script).UpdateID)]
    /\ UNCHANGED client

\* the consumer goroutine takes the ctx.Done() case and returns
ConsumerReturn ==
    /\ ~crashed
    /\ client.consumer = "select"
    /\ client.ctx = "done"
    /\ client' = [client EXCEPT !.consumer = "returned"]
    /\ UNCHANGED <<locks, commands, now, sessions, conversations, processing, lastMessageTime, crashed,
                   ticks, script, inflight, feed, out>>

\* a user leaves a wizard session alone for longer than the session timeout
Idle ==
    /\ ~crashed
    /\ \E u \in DOMAIN sessions : now - sessions[u].StartedAt <= timeout
    /\ now' = now + timeout + 1
    /\ UNCHANGED <<locks, commands, sessions, conversations, processing, lastMessageTime, crashed,
                   ticks, script, inflight, client, feed, out>>

NextPipeline ==
    \/ Arrive
    \/ CallStartLongPolling
    \/ CallStopLongPolling
    \/ ReturnStopLongPolling
    \/ Cancel
    \/ LoopSelect
    \/ LoopGetUpdates
    \/ LoopSleep
    \/ LoopRange
    \/ Consume
    \/ ConsumerReturn
    \/ Idle

SpecPipeline == Init /\ [][NextPipeline]_vars

-----------------------------------------------------------------------------
(* Shutdown with a consumer that has fallen behind.  The run starts where
   polling has been started, the loop has published the first
   UpdateChannelSize - 1 updates, the consumer has handled none of them yet,
   and the Bot API holds two further updates, one more than the channel has
   room left for. *)

BacklogSize == UpdateChannelSize + 1

Backlog == [id \in 1..BacklogSize |-> [UpdateID |-> id, user |-> 1, text |-> "/ping"]]

InitBacklog ==
    /\ now = 0
    /\ sessions = EmptyMap
    /\ conversations = EmptyMap
    /\ processing = EmptyMap
    /\ lastMessageTime = EmptyMap
    /\ crashed = FALSE
    /\ ticks = 0
    /\ script = SubSeq(Backlog, 1, UpdateChannelSize - 1)
    /\ inflight = EmptyMap
    /\ client = [StartLongPolling(NewTelegramClient, 0) EXCEPT
                    !.offset = NextOffset(Backlog[UpdateChannelSize - 1]),
                    !.first = FALSE]
    /\ feed = [server |-> Backlog,
               received |-> [id \in 1..(UpdateChannelSize - 1) |-> id],
               published |-> [id \in 1..(UpdateChannelSize - 1) |-> id],
               handled |-> <<>>]
    /\ locks = NewLocks
    /\ commands = Commands
    /\ out = NoOut

NextBacklog ==
    \/ CallStopLongPolling
    \/ ReturnStopLongPolling
    \/ Cancel
    \/ LoopSelect
    \/ LoopGetUpdates
    \/ LoopSleep
    \/ LoopRange
    \/ Consume
    \/ ConsumerReturn

\* each goroutine that can take a step takes one in the end: a getUpdates
\* call and the backoff sleep return, a select with a ready case proceeds,
\* and the consumer's select, which picks among its ready cases at random,
\* picks ctx.Done() in the end
SpecBacklog ==
    /\ InitBacklog
    /\ [][NextBacklog]_vars
    /\ WF_vars(LoopSelect)
    /\ WF_vars(LoopGetUpdates)
    /\ WF_vars(LoopSleep)
    /\ WF_vars(LoopRange)
    /\ WF_vars(ConsumerReturn)

-----------------------------------------------------------------------------
(* The dispatcher serving two users: a second user has chatted, started a
   story wizard, answered, switched to a poem wizard and answered again; the
   first user then sends updates at will *)

Bystander == 2

InitUsers ==
    /\ now = 0
    /\ sessions = EmptyMap
    /\ conversations = EmptyMap
    /\ processing = EmptyMap
    /\ lastMessageTime = EmptyMap
    /\ crashed = FALSE
    /\ ticks = 0
    /\ script = [i \in 1..Len(BystanderTexts) |->
                    [user |-> Bystander, text |-> BystanderTexts[i]]]
    /\ inflight = EmptyMap
    /\ client = NewTelegramClient
    /\ feed = NoFeed
    /\ locks = NewLocks
    /\ commands = Commands
    /\ out = NoOut

\* the updates a consumer may receive next: the second user's next update,
\* and once that user is done any update of the first user
NextUpdates ==
    IF script # <<>> THEN {Head(script)}
    ELSE {[user |-> u, text |-> text] : u \in Senders, text \in ActorTexts}

\* the next update is handled
ServeUsers ==
    /\ \E upd \in NextUpdates, rsp \in Responses, rsp2 \in Responses, tg \in BOOLEAN :
           HandleUpdate(upd.user, upd.text, rsp, rsp2, tg)
    /\ script' = IF script # <<>> THEN Tail(script) ELSE script
    /\ UNCHANGED <<client, feed>>

NextUsers == ServeUsers \/ Tick

SpecUsers == InitUsers /\ [][NextUsers]_vars

-----------------------------------------------------------------------------
(* The command table: handlers are registered under names of any casing and
   commands of any casing are dispatched *)

\* names given to RegisterCommand
CustomNames == {"test", "UPPERCASE", "Ping", "PING", "echo"}

\* h.RegisterCommand(name, handler) with a handler that returns nil
Register ==
    /\ ~crashed
    /\ \E name \in CustomNames :
          /\ commands' = RegisterCommand(commands, name)
          /\ out' = [NoOut EXCEPT !.route = "register", !.text = name]
    /\ UNCHANGED <<locks, now, sessions, conversations, processing, lastMessageTime, crashed,
                   ticks, script, inflight, client, feed>>

\* a command of any user arrives and is handled
ReceiveCommand ==
    /\ script = <<>>
    /\ \E u \in Users, text \in CommandTexts, rsp \in Responses, rsp2 \in Responses,
          tg \in BOOLEAN :
           HandleUpdate(u, text, rsp, rsp2, tg)
    /\ UNCHANGED <<script, client, feed>>

NextCommands == Register \/ ReceiveCommand

SpecCommands == Init /\ [][NextCommands]_vars

-----------------------------------------------------------------------------
(* The wizard Manager called from several goroutines, one action per
   operation on m.mu.  inflight[i] is the call goroutine i is in: its
   operation and user, its position, the session it read (GetWizard's local
   `wizard`), and how many read locks of m.mu it has taken and not released
   (negative once it has released more than it took). *)

Goroutines == {1, 2, 3}

ManagerOps == {"StartWizard", "GetWizard", "EndWizard", "CancelWizard"}

NoManagerOut == [op |-> "none", inv |-> 0, user |-> 0, ok |-> FALSE, holds |-> 0]

InitManager ==
    /\ now = 0
    /\ sessions = EmptyMap
    /\ conversations = EmptyMap
    /\ processing = EmptyMap
    /\ lastMessageTime = EmptyMap
    /\ crashed = FALSE
    /\ ticks = 0
    /\ script = <<>>
    /\ inflight = EmptyMap
    /\ client = NewTelegramClient
    /\ feed = NoFeed
    /\ locks = NewLocks
    /\ commands = Commands
    /\ out = NoManagerOut

\* the operation of goroutine i returns to its caller
ManagerReturn(i, ok, holds) ==
    /\ inflight' = MapDelete(inflight, i)
    /\ out' = [op |-> inflight[i].op, inv |-> i, user |-> inflight[i].user,
               ok |-> ok, holds |-> holds]

\* a goroutine calls a Manager operation
ManagerCall(i, op, u) ==
    /\ ~crashed
    /\ i \notin DOMAIN inflight
    /\ inflight' = MapSet(inflight, i,
                          [op |-> op, user |-> u, wizard |-> None, exists |-> FALSE,
                           holds |-> 0,
                           pc |-> IF op = "GetWizard" THEN "RLock" ELSE "Lock"])
    /\ UNCHANGED <<locks, commands, client, feed, now, sessions, conversations, processing,
                   lastMessageTime, crashed, ticks, script, out>>

\* m.mu.Lock() in StartWizard, EndWizard and in GetWizard's expiry branch
ManagerLock(i) ==
    /\ ~crashed
    /\ i \in DOMAIN inflight
    /\ inflight[i].pc = "Lock"
    /\ Lockable(locks.mu)
    /\ locks' = [locks EXCEPT !.mu = Lock(@)]
    /\ inflight' = [inflight EXCEPT ![i].pc = IF inflight[i].op = "StartWizard"
                                              THEN "store" ELSE "delete"]
    /\ UNCHANGED <<commands, client, feed, now, sessions, conversations, processing,
                   lastMessageTime, crashed, ticks, script, out>>

\* StartWizard under the write lock: m.sessions[userID] = wizard; Unlock; return
ManagerStore(i) ==
    /\ ~crashed
    /\ i \in DOMAIN inflight
    /\ inflight[i].pc = "store"
    /\ sessions' = StartWizard(sessions, inflight[i].user, ContentTypePoem, now)
    /\ locks' = [locks EXCEPT !.mu = Unlock(@)]
    /\ ManagerReturn(i, TRUE, inflight[i].holds)
    /\ UNCHANGED <<commands, client, feed, now, conversations, processing,
                   lastMessageTime, crashed, ticks, script>>

\* delete(m.sessions, userID); m.mu.Unlock(): EndWizard returns, GetWizard
\* goes on to its return statement
ManagerDelete(i) ==
    /\ ~crashed
    /\ i \in DOMAIN inflight
    /\ inflight[i].pc = "delete"
    /\ sessions' = EndWizard(sessions, inflight[i].user)
    /\ locks' = [locks EXCEPT !.mu = Unlock(@)]
    /\ IF inflight[i].op = "GetWizard"
       THEN /\ inflight' = [inflight EXCEPT ![i].pc = "deferred", ![i].exists = FALSE]
            /\ UNCHANGED out
       ELSE ManagerReturn(i, TRUE, inflight[i].holds)
    /\ UNCHANGED <<commands, client, feed, now, conversations, processing,
                   lastMessageTime, crashed, ticks, script>>

\* m.mu.RLock() at the top of GetWizard
ManagerRLock(i) ==
    /\ ~crashed
    /\ i \in DOMAIN inflight
    /\ inflight[i].pc = "RLock"
    /\ RLockable(locks.mu)
    /\ locks' = [locks EXCEPT !.mu = RLock(@)]
    /\ inflight' = [inflight EXCEPT ![i].pc = "read", ![i].holds = @ + 1]
    /\ UNCHANGED <<commands, client, feed, now, sessions, conversations, processing,
                   lastMessageTime, crashed, ticks, script, out>>

\* wizard, exists := m.sessions[userID], and the timeout test on it
ManagerRead(i) ==
    /\ ~crashed
    /\ i \in DOMAIN inflight
    /\ inflight[i].pc = "read"
    /\ LET u == inflight[i].user
       IN inflight' = [inflight EXCEPT
              ![i].wizard = IF u \in DOMAIN sessions THEN sessions[u] ELSE None,
              ![i].exists = u \in DOMAIN sessions,
              ![i].pc = IF u \in DOMAIN sessions /\ now - sessions[u].StartedAt > timeout
                        THEN "RUnlock" ELSE "deferred"]
    /\ UNCHANGED <<locks, commands, client, feed, now, sessions, conversations, processing,
                   lastMessageTime, crashed, ticks, script, out>>

\* m.mu.RUnlock(): the explicit one of the expiry branch, and the deferred one
\* that runs when GetWizard returns
ManagerRUnlock(i) ==
    /\ ~crashed
    /\ i \in DOMAIN inflight
    /\ inflight[i].pc \in {"RUnlock", "deferred"}
    /\ \E r \in {RUnlock(locks.mu.readers)} :
          /\ locks' = [locks EXCEPT !.mu.readers = r.readers]
          /\ crashed' = r.fatal
          /\ IF inflight[i].pc = "RUnlock" \/ r.fatal
             THEN /\ inflight' = [inflight EXCEPT
                         ![i].pc = IF r.fatal THEN "fatal" ELSE "Lock",
                         ![i].holds = @ - 1]
                  /\ UNCHANGED out
             ELSE ManagerReturn(i, inflight[i].exists, inflight[i].holds - 1)
    /\ UNCHANGED <<commands, client, feed, now, sessions, conversations, processing,
                   lastMessageTime, ticks, script>>

NextManager ==
    \/ \E i \in Goroutines, op \in ManagerOps, u \in Senders : ManagerCall(i, op, u)
    \/ \E i \in Goroutines : ManagerLock(i)
    \/ \E i \in Goroutines : ManagerStore(i)
    \/ \E i \in Goroutines : ManagerDelete(i)
    \/ \E i \in Goroutines : ManagerRLock(i)
    \/ \E i \in Goroutines : ManagerRead(i)
    \/ \E i \in Goroutines : ManagerRUnlock(i)
    \/ Tick

SpecManager == InitManager /\ [][NextManager]_vars

-----------------------------------------------------------------------------
(* The handler's rate-limit and processing guards called from several
   goroutines, one action per operation on h.rateLimitMu and h.processingMu.
   inflight[i] is the call goroutine i is in: its operation and arguments, its
   position, and the mutexes it holds. *)

GuardOps == {"checkRateLimit", "updateRateLimit", "isProcessing", "setProcessing"}

InitGuards ==
    /\ now = 0
    /\ sessions = EmptyMap
    /\ conversations = EmptyMap
    /\ processing = EmptyMap
    /\ lastMessageTime = EmptyMap
    /\ crashed = FALSE
    /\ ticks = 0
    /\ script = <<>>
    /\ inflight = EmptyMap
    /\ client = NewTelegramClient
    /\ feed = NoFeed
    /\ locks = NewLocks
    /\ commands = Commands
    /\ out = NoOut

\* the user whose message each goroutine is handling: two goroutines serve the
\* same user, the third another one
GuardUser(i) == IF i \in {1, 2} THEN 1 ELSE Bystander

\* the mutex an operation takes first
GuardMutex(op) ==
    IF op \in {"checkRateLimit", "updateRateLimit"} THEN "rateLimitMu" ELSE "processingMu"

\* the mutex goroutine i is about to take or release at its position
MutexAt(i) ==
    IF inflight[i].pc \in {"LockInner", "WaitInner", "stamp"} THEN "rateLimitMu"
    ELSE GuardMutex(inflight[i].op)

\* the call returns
GuardReturn(i) ==
    /\ inflight' = MapDelete(inflight, i)
    /\ UNCHANGED out

\* a goroutine calls one of the four guard operations
GuardCall(i, op, u, p) ==
    /\ i \notin DOMAIN inflight
    /\ inflight' = MapSet(inflight, i,
                          [op |-> op, user |-> u, p |-> p, holds |-> {},
                           pc |-> IF op \in {"checkRateLimit", "isProcessing"}
                                  THEN "RLock" ELSE "Lock"])
    /\ UNCHANGED <<locks, commands, client, feed, now, sessions, conversations, processing,
                   lastMessageTime, crashed, ticks, script, out>>

\* RLock() at the top of checkRateLimit and of isProcessing
GuardRLock(i) ==
    /\ i \in DOMAIN inflight
    /\ inflight[i].pc = "RLock"
    /\ RLockable(locks[MutexAt(i)])
    /\ locks' = [locks EXCEPT ![MutexAt(i)] = RLock(@)]
    /\ inflight' = [inflight EXCEPT ![i].pc = "read", ![i].holds = @ \cup {MutexAt(i)}]
    /\ UNCHANGED <<commands, client, feed, now, sessions, conversations, processing,
                   lastMessageTime, crashed, ticks, script, out>>

\* checkRateLimit or isProcessing reads its map under the read lock; the
\* deferred RUnlock and the return
GuardRead(i) ==
    /\ i \in DOMAIN inflight
    /\ inflight[i].pc = "read"
    /\ \E r \in {RUnlock(locks[MutexAt(i)].readers)} :
          /\ locks' = [locks EXCEPT ![MutexAt(i)].readers = r.readers]
          /\ crashed' = r.fatal
    /\ GuardReturn(i)
    /\ UNCHANGED <<commands, client, feed, now, sessions, conversations, processing,
                   lastMessageTime, ticks, script>>

\* Lock(), first half: the writer announces itself.  The outer Lock of
\* updateRateLimit and setProcessing, and setProcessing's inner
\* h.rateLimitMu.Lock()
GuardLock(i) ==
    /\ i \in DOMAIN inflight
    /\ inflight[i].pc \in {"Lock", "LockInner"}
    /\ LockAnnounceable(locks[MutexAt(i)])
    /\ locks' = [locks EXCEPT ![MutexAt(i)] = LockAnnounce(@)]
    /\ inflight' = [inflight EXCEPT ![i].pc = IF @ = "Lock" THEN "Wait" ELSE "WaitInner"]
    /\ UNCHANGED <<commands, client, feed, now, sessions, conversations, processing,
                   lastMessageTime, crashed, ticks, script, out>>

\* Lock(), second half: the readers have left and the write lock is taken
GuardWait(i) ==
    /\ i \in DOMAIN inflight
    /\ inflight[i].pc \in {"Wait", "WaitInner"}
    /\ Lockable(locks[MutexAt(i)])
    /\ locks' = [locks EXCEPT ![MutexAt(i)] = Lock(@)]
    /\ inflight' = [inflight EXCEPT
           ![i].holds = @ \cup {MutexAt(i)},
           ![i].pc = IF @ = "WaitInner" THEN "stamp"
                     ELSE IF inflight[i].op = "updateRateLimit" THEN "update" ELSE "set"]
    /\ UNCHANGED <<commands, client, feed, now, sessions, conversations, processing,
                   lastMessageTime, crashed, ticks, script, out>>

\* updateRateLimit under the write lock: the record, the deferred Unlock, return
GuardUpdate(i) ==
    /\ i \in DOMAIN inflight
    /\ inflight[i].pc = "update"
    /\ lastMessageTime' = updateRateLimit(Handler, inflight[i].user, now).lastMessageTime
    /\ locks' = [locks EXCEPT !.rateLimitMu = Unlock(@)]
    /\ GuardReturn(i)
    /\ UNCHANGED <<commands, client, feed, now, sessions, conversations, processing,
                   crashed, ticks, script>>

\* setProcessing under h.processingMu: h.processing[userID] = processing; when
\* the flag is raised the deferred Unlock runs and the call returns
GuardSet(i) ==
    /\ i \in DOMAIN inflight
    /\ inflight[i].pc = "set"
    /\ processing' = MapSet(processing, inflight[i].user, inflight[i].p)
    /\ IF inflight[i].p
       THEN /\ locks' = [locks EXCEPT !.processingMu = Unlock(@)]
            /\ GuardReturn(i)
       ELSE /\ inflight' = [inflight EXCEPT ![i].pc = "LockInner"]
            /\ UNCHANGED <<locks, out>>
    /\ UNCHANGED <<commands, client, feed, now, sessions, conversations,
                   lastMessageTime, crashed, ticks, script>>

\* setProcessing(false) under both mutexes: the rate-limit record and
\* h.rateLimitMu.Unlock()
GuardStamp(i) ==
    /\ i \in DOMAIN inflight
    /\ inflight[i].pc = "stamp"
    /\ lastMessageTime' = MapSet(lastMessageTime, inflight[i].user, now)
    /\ locks' = [locks EXCEPT !.rateLimitMu = Unlock(@)]
    /\ inflight' = [inflight EXCEPT ![i].pc = "Unlock", ![i].holds = @ \ {"rateLimitMu"}]
    /\ UNCHANGED <<commands, client, feed, now, sessions, conversations, processing,
                   crashed, ticks, script, out>>

\* setProcessing(false): the deferred h.processingMu.Unlock() and return
GuardUnlock(i) ==
    /\ i \in DOMAIN inflight
    /\ inflight[i].pc = "Unlock"
    /\ locks' = [locks EXCEPT !.processingMu = Unlock(@)]
    /\ GuardReturn(i)
    /\ UNCHANGED <<commands, client, feed, now, sessions, conversations, processing,
                   lastMessageTime, crashed, ticks, script>>

\* goroutine i takes the next step of its call
GuardStep(i) ==
    \/ GuardRLock(i)
    \/ GuardRead(i)
    \/ GuardLock(i)
    \/ GuardWait(i)
    \/ GuardUpdate(i)
    \/ GuardSet(i)
    \/ GuardStamp(i)
    \/ GuardUnlock(i)

NextGuards ==
    \/ \E i \in Goroutines, op \in GuardOps, p \in BOOLEAN :
           (op # "setProcessing" => ~p) /\ GuardCall(i, op, GuardUser(i), p)
    \/ \E i \in Goroutines : GuardStep(i)

\* a goroutine inside a call keeps running, and one that waits for a mutex
\* gets it once it is free often enough (a sync.RWMutex hands a released lock
\* to those waiting and holds new readers back while a writer waits)
SpecGuards ==
    /\ InitGuards
    /\ [][NextGuards]_vars
    /\ \A i \in Goroutines : SF_vars(GuardStep(i))

-----------------------------------------------------------------------------
(* Reading an update text the way the bot's documentation describes it *)

\* the command word of a text ("" for free text)
CommandOf(text) ==
    IF text # "" /\ Char(text, 1) = "/" /\ Len(commandParts(text)) > 0
    THEN ToLower(commandParts(text)[1]) ELSE ""

\* the <type> of "/create <type> ..." ("" when none is given)
CreateType(text) ==
    LET parts == commandParts(text)
    IN IF Len(parts) >= 2 /\ Char(parts[2], 1) # "-" THEN parts[2] ELSE ""

HasToken(text, tok) ==
    \E i \in 2..Len(commandParts(text)) : commandParts(text)[i] = tok

\* the word that follows the first occurrence of tok ("" when none does)
TokenAfter(text, tok) ==
    LET parts == commandParts(text)
        i == CHOOSE k \in 2..Len(parts) :
                 parts[k] = tok /\ \A j \in 2..(k - 1) : parts[j] # tok
    IN IF i < Len(parts) THEN parts[i + 1] ELSE ""

\* "/create <type> -t <text> ..."
IsQuickCreate(text) ==
    /\ CommandOf(text) = "create"
    /\ CreateType(text) # ""
    /\ HasToken(text, "-t")

\* every request of the last invocation was answered with at least one choice
BackendSucceeded ==
    /\ out.requests # <<>>
    /\ \A i \in 1..Len(out.requests) :
           out.requests[i].Response.ok /\ Len(out.requests[i].Response.choices) > 0

IsApology(text) == HasPrefix(text, "Sorry, I encountered an error")

\* a step of the dispatcher (the clock stands still while a handler runs)
HandlerStep == now' = now

StepInRange(w) == w.Step \in 0..Len(GetSteps(w.ContentType))

-----------------------------------------------------------------------------
(* C1..C10 *)

\* C1: an accepted free-text message whose completion succeeds is sent with the
\* sender's whole stored conversation ending with the new text, and afterwards
\* the stored conversation ends with {user, text} and {assistant, reply}.
C1_ChatCarriesHistory ==
    (out.route = "chat" /\ BackendSucceeded) =>
        LET conv == GetConversation(conversations, out.user)
            n == Len(conv)
            last == out.requests[Len(out.requests)]
        IN /\ n >= 2
           /\ conv[n - 1] = [Role |-> "user", Content |-> out.text]
           /\ conv[n] = [Role |-> "assistant", Content |-> last.Response.choices[1]]
           /\ last.Messages = SubSeq(conv, 1, n - 1)

\* C2: when the backend answers successfully, an accepted free-text message ends
\* with the first choice's text sent as the reply and no error returned; the
\* apology is sent only when the backend call fails.
C2_ReplyOnSuccess ==
    out.route = "chat" =>
        /\ BackendSucceeded =>
               /\ out.err = ""
               /\ out.sent[Len(out.sent)]
                      = out.requests[Len(out.requests)].Response.choices[1]
        /\ (\E i \in 1..Len(out.sent) : IsApology(out.sent[i])) =>
               (\E j \in 1..Len(out.requests) : ~out.requests[j].Response.ok)

\* C3: after "/create poem", "haiku", "autumn", "calm", "4", "" from one user the
\* empty reply is recorded as the answer to 'structure', the wizard completes and
\* exactly one completion request is issued, whose single message contains
\* "haiku" and "autumn"; no request is issued before that.
C3_PoemScenario ==
    /\ script # <<>> => out.requests = <<>>
    /\ script = <<>> =>
           /\ out.text = ""
           /\ out.route = "wizard"
           /\ "structure" \in DOMAIN out.wiz.Answers
           /\ out.wiz.Answers["structure"] = ""
           /\ IsComplete(out.wiz)
           /\ out.user \notin DOMAIN sessions
           /\ Len(out.requests) = 1
           /\ Len(out.requests[1].Messages) = 1
           /\ Contains(out.requests[1].Messages[1].Content, "haiku")
           /\ Contains(out.requests[1].Messages[1].Content, "autumn")

\* C4: the first GetWizard after the timeout returns not-found and removes the
\* session, and a second GetWizard for the same user also returns not-found.
C4_LazyExpiry ==
    out.getWizard = "expired" =>
        /\ ~crashed
        /\ out.user \notin DOMAIN sessions
        /\ ~GetWizard(sessions, out.user, now, 0).ok

\* C5: after "/create <type>" with the -t modifier the sender has no wizard
\* session, so the next free text goes to the chat flow.
C5_QuickModeNoSession ==
    IsQuickCreate(out.text) =>
        /\ out.user \notin DOMAIN sessions
        /\ ~GetWizard(sessions, out.user, now, 0).ok

\* C6: "/create <type> -t <text>" (optionally with -m <instructions> and
\* -s <style>) issues exactly one request whose single user message contains
\* the text, and the instructions and the style when they are given.
C6_QuickModePrompt ==
    IsQuickCreate(out.text) =>
        /\ Len(out.requests) = 1
        /\ Len(out.requests[1].Messages) = 1
        /\ out.requests[1].Messages[1].Role = "user"
        /\ \A f \in {"-t", "-m", "-s"} :
               HasToken(out.text, f) =>
                   Contains(out.requests[1].Messages[1].Content, TokenAfter(out.text, f))

\* C7: "/create" with a type that is not one of the seven content types creates
\* no wizard session and leads to no completion request, neither at once nor on
\* the sender's next message.
C7_UnknownTypeRejected ==
    /\ (CommandOf(out.text) = "create" /\ CreateType(out.text) \notin ContentTypes) =>
           (out.user \notin DOMAIN sessions /\ out.requests = <<>>)
    /\ \A u \in DOMAIN sessions : sessions[u].ContentType \in ContentTypes
    /\ (out.route = "wizard" /\ out.requests # <<>>) =>
           out.wiz.ContentType \in ContentTypes

\* C8: texts are routed by first match: a text starting with "/" goes only to
\* the command table; otherwise a sender with an active wizard session has the
\* text consumed as the answer to the current step, and neither the rate limiter
\* nor the processing guard is consulted or updated; only otherwise the
\* rate-limit check is made, then the processing check, then the completion flow.
C8_RoutingPrecedence ==
    [][HandlerStep =>
        LET u == out'.user
            text == out'.text
            called == {out'.calls[i] : i \in 1..Len(out'.calls)}
            command == text # "" /\ Char(text, 1) = "/"
            freeText == text # "" /\ Char(text, 1) # "/"
            active == u \in DOMAIN sessions /\ now - sessions[u].StartedAt <= timeout
            guardsUntouched ==
                /\ processing' = processing
                /\ lastMessageTime' = lastMessageTime
                /\ called \cap {"checkRateLimit", "isProcessing", "setProcessing"} = {}
        IN /\ command =>
                  (out'.route = "command" /\ guardsUntouched /\ "GetWizard" \notin called)
           /\ (freeText /\ active) =>
                  /\ out'.route = "wizard"
                  /\ guardsUntouched
                  /\ MapGet(out'.wiz.Answers, GetCurrentKey(sessions[u])) = text
           /\ "checkRateLimit" \in called => (freeText /\ ~active)
           /\ "isProcessing" \in called => checkRateLimit(Handler, u, now)
           /\ out'.route = "chat" =>
                  (checkRateLimit(Handler, u, now) /\ ~isProcessing(Handler, u))
           /\ (freeText /\ u \notin DOMAIN sessions) =>
                  out'.route = IF ~checkRateLimit(Handler, u, now) THEN "rate_limited"
                               ELSE IF isProcessing(Handler, u) THEN "busy"
                               ELSE "chat"
    ]_vars

\* C8 witness: a wizard answer that arrived inside the sender's rate-limit window
\* was consumed as an answer
C8_Witness ==
    /\ out.route = "wizard"
    /\ out.user \in DOMAIN lastMessageTime
    /\ now - lastMessageTime[out.user] < rateLimit

\* C9: the step index of every wizard session is always within 0..totalSteps,
\* totalSteps being the number of questions of the session's content type.
C9_StepInRange ==
    /\ \A u \in DOMAIN sessions : StepInRange(sessions[u])
    /\ out.wiz # None => StepInRange(out.wiz)

\* C10: within one wizard session GetStep never decreases, each SetAnswer raises
\* it by exactly one, and a session that is complete stays complete after every
\* later operation on it.
C10_StepMonotone ==
    [][HandlerStep =>
        /\ out'.route = "wizard" =>
               /\ out'.user \in DOMAIN sessions
               /\ GetStep(out'.wiz) = GetStep(sessions[out'.user]) + 1
               /\ IsComplete(sessions[out'.user]) => IsComplete(out'.wiz)
               /\ out'.user \in DOMAIN sessions' => sessions'[out'.user] = out'.wiz
        /\ \A u \in (DOMAIN sessions) \cap (DOMAIN sessions') :
               ~(out'.user = u /\ out'.calls # <<>> /\ out'.calls[1] = "StartWizard") =>
                   /\ GetStep(sessions'[u]) >= GetStep(sessions[u])
                   /\ IsComplete(sessions[u]) => IsComplete(sessions'[u])
    ]_vars

\* C10 witness: a poem wizard was answered through to its last step
C10_Witness ==
    /\ out.route = "wizard"
    /\ out.wiz.ContentType = ContentTypePoem
    /\ GetStep(out.wiz) = Len(GetPoemSteps)
    /\ IsComplete(out.wiz)

-----------------------------------------------------------------------------
(* C11..C20 *)

\* the number of questions the documentation gives for each content type
StepCounts ==
    (ContentTypeMarketing :> 8) @@ (ContentTypeEmail :> 6) @@ (ContentTypeReport :> 7)
    @@ (ContentTypeScript :> 7) @@ (ContentTypeWhitepaper :> 7)
    @@ (ContentTypeStory :> 6) @@ (ContentTypePoem :> 5)

StepKeys(contentType) ==
    [i \in 1..Len(GetSteps(contentType)) |-> GetSteps(contentType)[i].Key]

\* every answer key of every content type
AllStepKeys ==
    UNION {{StepKeys(ct)[i] : i \in 1..Len(StepKeys(ct))} : ct \in ContentTypes}

\* C11: each content type has its fixed number N of questions (marketing 8,
\* email 6, report 7, script 7, whitepaper 7, story 6, poem 5): a session of that
\* type is not complete after any k < N answers and is complete after exactly N.
C11_StepCounts ==
    out.op # "none" =>
        LET n == StepCounts[out.wiz.ContentType]
        IN /\ Len(GetSteps(out.wiz.ContentType)) = n
           /\ Len(out.given) <= n
           /\ IsComplete(out.wiz) <=> Len(out.given) = n

\* C11 witness: a marketing session answered eight times, complete
C11_Witness ==
    /\ out.op = "SetAnswer"
    /\ out.wiz.ContentType = ContentTypeMarketing
    /\ Len(out.given) = 8
    /\ IsComplete(out.wiz)

\* C12: for every content type BuildPrompt reads exactly the answer keys of that
\* type's step list, so every answer of a completed wizard appears in the prompt;
\* the poem keys are style, topic, mood, length, structure in that order and
\* after 5 answers the prompt contains all 5 answers.
C12_PromptReadsStepKeys ==
    /\ StepKeys(ContentTypePoem) = <<"style", "topic", "mood", "length", "structure">>
    /\ (out.op = "SetAnswer" /\ IsComplete(out.wiz)) =>
           LET keys == StepKeys(out.wiz.ContentType)
               keySet == {keys[i] : i \in 1..Len(keys)}
               with(k) == [out.wiz EXCEPT !.Answers = MapSet(@, k, "green")]
           IN /\ out.prompt = BuildPrompt(out.wiz)
              /\ DOMAIN out.wiz.Answers = keySet
              /\ \A i \in 1..Len(out.given) :
                     /\ out.wiz.Answers[keys[i]] = out.given[i]
                     /\ Contains(out.prompt, out.given[i])
              /\ \A k \in keySet : BuildPrompt(with(k)) # out.prompt
              /\ \A k \in AllStepKeys \ keySet : BuildPrompt(with(k)) = out.prompt

\* C12 witness: a poem session answered five times, with its prompt built
C12_Witness ==
    /\ out.op = "SetAnswer"
    /\ out.wiz.ContentType = ContentTypePoem
    /\ Len(out.given) = 5
    /\ out.prompt # ""
    /\ Contains(out.prompt, out.given[2])

\* the invocation has raised the processing flag and not yet lowered it
InFlow(i) == inflight[i].pc \in {"flow", "deferred", "deferred_error"}

\* C13: every handleMessage invocation that sets a user's processing flag clears
\* it before returning, after a success and after a completion error alike; so
\* a user's flag is set only while an invocation for that user is between
\* raising it and returning, and no user is locked out forever.
C13_FlagCleared ==
    \A u \in Users :
        isProcessing(Handler, u) =>
            \E i \in DOMAIN inflight : inflight[i].user = u /\ InFlow(i)

\* C13 witness: an invocation whose completion failed has returned, nothing is
\* running and the user's flag is down
C13_Witness ==
    /\ out.event = "done"
    /\ out.err # ""
    /\ inflight = EmptyMap
    /\ out.user \in DOMAIN processing
    /\ ~processing[out.user]

\* C14: of two handleMessage invocations running at the same time for free texts
\* of one user, at most one is inside the completion flow at any time.
C14_OneInFlow ==
    \A i, j \in DOMAIN inflight :
        (i # j /\ inflight[i].user = inflight[j].user) => ~(InFlow(i) /\ InFlow(j))

\* the handler's fields after the step
HandlerNext ==
    [sessions |-> sessions', conversations |-> conversations',
     processing |-> processing', lastMessageTime |-> lastMessageTime']

\* C15: for a user with no rate-limit record checkRateLimit returns true; right
\* after updateRateLimit it returns false, and keeps returning false until the
\* threshold has elapsed since the record, from when on it returns true; the
\* result for one user never depends on another user's record.
C15_RateLimiter ==
    [][HandlerStep =>
        LET u == out'.user
        IN /\ out'.op = "checkRateLimit" =>
                  /\ u \notin DOMAIN lastMessageTime => out'.allowed
                  /\ u \in DOMAIN lastMessageTime =>
                         (out'.allowed <=> now - lastMessageTime[u] >= rateLimit)
           /\ (out'.op = "updateRateLimit" /\ out' # out) =>
                  /\ lastMessageTime'[u] = now
                  /\ ~checkRateLimit(HandlerNext, u, now')
                  /\ \A v \in Users \ {u} :
                         checkRateLimit(HandlerNext, v, now') = checkRateLimit(Handler, v, now)
    ]_vars

\* C15 witness: a user is refused right after the record was made while another
\* user has no record
C15_Witness ==
    /\ out.op = "checkRateLimit"
    /\ ~out.allowed
    /\ lastMessageTime[out.user] = now
    /\ \E v \in Users : v \notin DOMAIN lastMessageTime

\* C16: a free-text message rejected by the rate limit changes nothing: the
\* sender's rate-limit record, processing flag, stored conversation and wizard
\* state stay as they were and no completion request is issued; only the
\* 'please wait' notice is sent.
C16_RejectedChangesNothing ==
    [][HandlerStep =>
        LET u == out'.user
            text == out'.text
            tooSoon ==
                /\ text # "" /\ Char(text, 1) # "/"
                /\ u \notin DOMAIN sessions
                /\ u \in DOMAIN lastMessageTime
                /\ now - lastMessageTime[u] < rateLimit
        IN /\ tooSoon => out'.route = "rate_limited"
           /\ out'.route = "rate_limited" =>
                  /\ lastMessageTime' = lastMessageTime
                  /\ processing' = processing
                  /\ conversations' = conversations
                  /\ sessions' = sessions
                  /\ out'.requests = <<>>
                  /\ out'.err = ""
                  /\ out'.sent = <<"Please wait a moment before sending another message.">>
    ]_vars

\* C16 witness: a user with a stored conversation and a fresh rate-limit record
\* was refused
C16_Witness ==
    /\ out.route = "rate_limited"
    /\ out.user \in DOMAIN conversations
    /\ lastMessageTime[out.user] = now

\* C17: setProcessing(u, false) stamps u's rate-limit record with the current
\* time in the step that clears the flag, after a successful and after a failed
\* completion, and setProcessing(u, true) leaves the record unchanged; so a free
\* text that arrives less than the threshold after the previous completion ended
\* is rejected, however long that completion took.
C17_StampAtEnd ==
    [][\A i \in DOMAIN inflight :
        LET u == inflight[i].user
            pc == inflight[i].pc
            returned == i \notin DOMAIN inflight'
        IN /\ (pc = "setProcessing" /\ ~returned /\ inflight'[i].pc = "flow") =>
                  /\ processing'[u]
                  /\ lastMessageTime' = lastMessageTime
           /\ (pc \in {"deferred", "deferred_error"} /\ returned) =>
                  /\ ~processing'[u]
                  /\ lastMessageTime'[u] = now
                  /\ \A v \in DOMAIN lastMessageTime \ {u} :
                         lastMessageTime'[v] = lastMessageTime[v]
           /\ (pc = "checkRateLimit" /\ u \in DOMAIN lastMessageTime
               /\ now - lastMessageTime[u] < rateLimit
               /\ (returned \/ inflight'[i].pc # pc)) =>
                  (returned /\ out'.event = "rate_limited" /\ out'.inv = i)
    ]_vars

\* C17 witness: a completion that took the whole wizard timeout has returned and
\* the record carries the time of its end
C17_Witness ==
    /\ out.event = "done"
    /\ now - out.since >= timeout
    /\ lastMessageTime[out.user] = now
    /\ ~processing[out.user]

\* C18: for any sequence of AddMessage calls GetMessages returns exactly the
\* appended messages in insertion order with their role and content; after Clear
\* GetMessages returns an empty sequence, and Clear leaves the system prompt
\* unchanged.
C18_ConversationRoundTrip ==
    [][LET u == out'.user
       IN /\ (out'.op = "AddMessage" /\ conversations' # conversations) =>
                 /\ GetMessages(conversations'[u])
                        = Append(GetConversation(conversations, u),
                                 [Role |-> out'.role, Content |-> out'.content])
                 /\ out'.result = GetMessages(conversations'[u])
          /\ (out'.op = "Clear" /\ out' # out) =>
                 /\ GetMessages(conversations'[u]) = <<>>
                 /\ out'.result = <<>>
                 /\ conversations'[u].System = conversations[u].System
    ]_vars

\* C18 witness: two different messages were appended to a conversation that has
\* a system prompt
C18_Witness ==
    /\ out.op = "AddMessage"
    /\ Len(out.result) = 2
    /\ out.result[1] # out.result[2]
    /\ conversations[out.user].System # ""

\* C19: the store holds at most one Conversation per user id: a repeated
\* getOrCreateConversation with the same id returns the stored instance, a call
\* with another id leaves it alone, and GetConversation for an id with no stored
\* conversation returns nothing and creates none.
C19_OneConversationPerUser ==
    [][LET u == out'.user
       IN /\ (out'.op = "getOrCreateConversation" /\ out' # out) =>
                 /\ u \in DOMAIN conversations => conversations' = conversations
                 /\ u \notin DOMAIN conversations =>
                        /\ DOMAIN conversations' = DOMAIN conversations \cup {u}
                        /\ conversations'[u] = NewConversation
                        /\ \A v \in DOMAIN conversations :
                               conversations'[v] = conversations[v]
                 /\ out'.result = GetConversation(conversations', u)
          /\ out'.op = "GetConversation" =>
                 /\ conversations' = conversations
                 /\ u \notin DOMAIN conversations =>
                        (out'.result = <<>> /\ u \notin DOMAIN conversations')
    ]_vars

\* C19 witness: getOrCreateConversation returned a stored, non-empty
\* conversation while another user has one too
C19_Witness ==
    /\ out.op = "getOrCreateConversation"
    /\ Len(out.result) > 0
    /\ \E v \in DOMAIN conversations : v # out.user

\* C20: ClearConversation(u) leaves u with no stored messages, leaves every
\* other user's conversation unchanged, and for a user with no stored
\* conversation changes nothing and reports no error.
C20_ClearConversationFrame ==
    [][out'.op = "ClearConversation" =>
        LET u == out'.user
        IN /\ GetConversation(conversations', u) = <<>>
           /\ DOMAIN conversations' \subseteq DOMAIN conversations
           /\ \A v \in DOMAIN conversations \ {u} :
                  v \in DOMAIN conversations' /\ conversations'[v] = conversations[v]
           /\ u \notin DOMAIN conversations => conversations' = conversations
           /\ out'.err = ""
    ]_vars

\* C20 witness: a conversation was cleared and another user's messages are
\* still stored
C20_Witness ==
    /\ out.op = "ClearConversation"
    /\ GetConversation(conversations, out.user) = <<>>
    /\ \E v \in DOMAIN conversations :
           v # out.user /\ Len(GetMessages(conversations[v])) = MaxMessages

-----------------------------------------------------------------------------
(* C21..C30 *)

\* a Start/StopLongPolling call that came back with an error
ApiFailed(c) == c.api.err \notin {"", "waiting"}

\* C21: StartLongPolling on a client that is already polling, and
\* StopLongPolling on a client that is not polling (never started, or already
\* stopped), each return an error and change no state: no second fetch task
\* is spawned and the stop channel is not closed again.
C21_GuardedStartStop ==
    [][ (\/ CallStartLongPolling /\ client.connected
         \/ CallStopLongPolling /\ ~client.connected)
        => /\ ApiFailed(client')
           /\ client'.api.op = (IF client.connected THEN "StartLongPolling"
                                                    ELSE "StopLongPolling")
           /\ [client' EXCEPT !.api = client.api] = client
           /\ client'.loop = client.loop
           /\ client'.stopChan = client.stopChan
           /\ ~crashed'
           /\ UNCHANGED <<script, feed>> ]_vars

\* C21 witness: StopLongPolling was refused on a client stopped before, whose
\* stop channel is still the one closed by the first stop
C21_Witness ==
    /\ client.api = [op |-> "StopLongPolling", err |-> "long polling not started"]
    /\ ~client.connected
    /\ client.stopChan = "closed"
    /\ client.loop = "returned"
    /\ ~crashed

Highest(ids) == CHOOSE m \in {ids[i] : i \in DOMAIN ids} : \A i \in DOMAIN ids : ids[i] <= m

Distinct(ids) == \A i, j \in DOMAIN ids : i # j => ids[i] # ids[j]

\* C22: with a server that returns updates of strictly increasing ids not
\* below the requested offset, the offset of every getUpdates request is 0
\* before any update was received and afterwards one more than the highest
\* update id received so far; the client's offset never decreases and no
\* update id is published to the queue twice.
C22_OffsetCursor ==
    /\ [](client.loop = "GetUpdates"
            => client.params.Offset = IF feed.received = <<>> THEN 0
                                      ELSE Highest(feed.received) + 1)
    /\ [](Distinct(feed.published))
    /\ [][client'.offset >= client.offset]_vars

\* C22 witness: a request is out whose offset follows two received updates
\* with a gap in their ids
C22_Witness ==
    /\ client.loop = "GetUpdates"
    /\ Len(feed.received) = 2
    /\ client.params.Offset = Highest(feed.received) + 1
    /\ client.params.Offset > 3
    /\ feed.published = feed.received

\* no cancellation and no stop has been signalled to the two goroutines
Running == client.ctx = "live" /\ client.stopChan = "open" /\ ~crashed

\* C23: while the pipeline is running, updates are handed to HandleUpdate one
\* at a time in exactly the order in which they were fetched: the ids handled
\* so far, followed by those waiting in the queue and those of the batch in
\* hand, are the ids fetched, none dropped, duplicated, reordered or merged.
C23_FetchOrder ==
    /\ feed.handled \o UpdateIDs(script) = feed.published
    /\ Distinct(feed.handled)
    /\ \A i, j \in DOMAIN feed.handled : i < j => feed.handled[i] < feed.handled[j]
    /\ Running => feed.published \o UpdateIDs(client.updates) = feed.received
    /\ Running => client.consumer = "select"

\* C23 witness: two updates fetched in one batch were both handled, in order
C23_Witness ==
    /\ Running
    /\ Len(feed.handled) = 2
    /\ feed.handled = feed.received
    /\ feed.handled = UpdateIDs(feed.server)
    /\ out.user \in Senders
    /\ out.text = feed.server[2].text

\* C24: when HandleUpdate returns an error for one update the consumer loop
\* goes on to the next queued update: every handling leaves the loop
\* receiving, and the loop stops only once the context is cancelled (the
\* update channel is never closed).
C24_ConsumerGoesOn ==
    [][ /\ feed'.handled # feed.handled => (client'.consumer = "select" /\ ~crashed')
        /\ (client.consumer = "select" /\ client'.consumer # "select")
              => client.ctx = "done" ]_vars

\* what a per-user map holds for user v, if anything
Entry(m, v) == IF v \in DOMAIN m THEN <<m[v]>> ELSE <<>>

\* the four per-user records of user v are the same before and after the step
UserStateKept(v) ==
    /\ Entry(sessions', v) = Entry(sessions, v)
    /\ Entry(conversations', v) = Entry(conversations, v)
    /\ Entry(lastMessageTime', v) = Entry(lastMessageTime, v)
    /\ Entry(processing', v) = Entry(processing, v)

\* C25: handling any update sent by user U, whether it succeeds or fails,
\* leaves the stored conversation, wizard session, rate-limit record and
\* processing flag of every other user unchanged: the process, which holds
\* them in memory, lives on and the records of every other user are as before.
C25_OtherUsersUntouched ==
    [][ HandlerStep
        => /\ ~crashed'
           /\ \A v \in Users \ {out'.user} : UserStateKept(v) ]_vars

\* the update handled last recorded the final answer of a wizard
CompletedWizard(o) == o.route = "wizard" /\ o.wiz # None /\ IsComplete(o.wiz)

\* position of a call in the sequence of calls of one handling (0: not made)
CallIndex(calls, name) ==
    IF \E i \in DOMAIN calls : calls[i] = name
    THEN CHOOSE i \in DOMAIN calls : calls[i] = name ELSE 0

\* C26: when the last answer of a wizard is recorded, the sender's session is
\* removed before the completion request is made; after the handler returns
\* the sender has no wizard session, whether the completion succeeded or
\* failed, and on failure a plain-text notice is sent.
C26_SessionEndsAtCompletion ==
    CompletedWizard(out)
    => /\ CallIndex(out.calls, "EndWizard") > 0
       /\ CallIndex(out.calls, "EndWizard") < CallIndex(out.calls, "Chat")
       /\ out.user \notin DOMAIN sessions
       /\ out.err # ""
            => out.sent[Len(out.sent)] = sendMessage("Error generating content: " \o out.err)

\* C26 witness: the completion request of a finished wizard failed, the
\* notice went out and the sender has no session
C26_Witness ==
    /\ CompletedWizard(out)
    /\ out.err # ""
    /\ Len(out.requests) = 1
    /\ Len(out.sent) = 2
    /\ out.user \notin DOMAIN sessions

\* C27: the completion request issued when a wizard completes contains exactly
\* one message, the prompt built from the collected answers, whatever the
\* sender's stored conversation holds; neither the prompt nor the generated
\* reply is appended to the stored conversation.
C27_SinglePromptRequest ==
    [][ (HandlerStep /\ CompletedWizard(out'))
        => /\ Len(out'.requests) = 1
           /\ out'.requests[1].UserID = out'.user
           /\ out'.requests[1].Messages
                = <<[Role |-> "user", Content |-> BuildPrompt(out'.wiz)]>>
           /\ conversations' = conversations ]_vars

\* C27 witness: a wizard of a user with a stored conversation completed and
\* the generated text was sent
C27_Witness ==
    /\ CompletedWizard(out)
    /\ out.err = ""
    /\ Len(out.requests) = 1
    /\ out.sent[Len(out.sent)] = ReplyText
    /\ out.user \in DOMAIN conversations

\* CommandOf computed once for the texts of the model
CommandOfTable == [t \in KnownTexts |-> CommandOf(t)]

\* the update handled last was a /clear command
ClearCommand(o) ==
    /\ o.route = "command"
    /\ "clear" = IF o.text \in DOMAIN CommandOfTable
                 THEN CommandOfTable[o.text] ELSE CommandOf(o.text)

\* the step takes away the conversation stored for user u
Cleared(u) == u \in DOMAIN conversations /\ u \notin DOMAIN conversations'

C29_CaseInsensitiveCommands ==
    [][ /\ out'.route = "register"
            => /\ ToLower(out'.text) \in commands'
               /\ commands' \ commands \subseteq {ToLower(out'.text)}
               /\ commands \subseteq commands'
        /\ out'.route = "command"
            => LET command == CommandOf(out'.text)
                   unknown == <<"Unknown command: /" \o command>>
               IN /\ command \in commands
                     => /\ out'.sent # unknown
                        /\ command \notin Commands => out'.calls = <<command>>
                        /\ command = "help" => out'.sent = <<helpText>>
                  /\ command \notin commands
                     => /\ out'.sent = unknown
                        /\ out'.err = ""
                        /\ out'.calls = <<>>
                        /\ UNCHANGED <<sessions, conversations, processing,
                                       lastMessageTime, commands>> ]_vars

\* C29 witness: a handler registered as "UPPERCASE" was reached by
\* "/Uppercase a b", and "nope" has no handler
C29_Witness ==
    /\ out.route = "command"
    /\ out.text = "/Uppercase a b"
    /\ out.calls = <<"uppercase">>
    /\ out.sent = <<>>
    /\ "uppercase" \in commands
    /\ "UPPERCASE" \notin commands
    /\ "nope" \notin commands

\* C30: StartWizard(u, t) always leaves u with a session of type t at step 0
\* with no answers, discarding the step and answers of any session u had
\* before, and leaves the sessions of all other users unchanged; a
\* '/create <type>' sent in the middle of a wizard restarts at the first
\* question of the new type.
C30_StartWizardFresh ==
    [][ (HandlerStep /\ out'.route = "command" /\ out'.calls = <<"StartWizard">>)
        => LET u == out'.user
               t == CreateType(out'.text)
           IN /\ u \in DOMAIN sessions'
              /\ sessions'[u] = [UserID |-> u, ContentType |-> t, Answers |-> EmptyMap,
                                 Step |-> 0, StartedAt |-> now]
              /\ \A v \in Users \ {u} : Entry(sessions', v) = Entry(sessions, v)
              /\ out'.sent = <<"Starting " \o t \o " wizard! (Step 1 of "
                               \o ToString(Len(GetSteps(t))) \o ")\n\n"
                               \o GetSteps(t)[1].Question>> ]_vars

\* C30 witness: the second user, one answer into the story wizard, has sent
\* '/create poem' and holds a poem session at step 0 without answers
C30_Witness ==
    /\ out.user = Bystander
    /\ out.text = "/create poem"
    /\ Len(script) = 1
    /\ Bystander \in DOMAIN sessions
    /\ sessions[Bystander].ContentType = ContentTypePoem
    /\ sessions[Bystander].Step = 0
    /\ sessions[Bystander].Answers = EmptyMap

-----------------------------------------------------------------------------
(* C31..C40 *)

\* goroutine i is inside GetWizard's expiry branch, about to delete
Deleting(i) ==
    /\ i \in DOMAIN inflight
    /\ inflight[i].op = "GetWizard"
    /\ inflight[i].pc = "delete"

\* C31: GetWizard's expiry check and its deletion are atomic with respect to
\* the other Manager operations: the session that the expiry branch deletes is
\* the expired one that its check read, never a fresh session that a
\* concurrent StartWizard for the same user has stored in between.
C31_ExpiryAtomic ==
    [][\A i \in Goroutines :
          (Deleting(i) /\ inflight'[i].pc = "deferred"
                       /\ inflight[i].user \in DOMAIN sessions)
          => sessions[inflight[i].user] = inflight[i].wizard]_vars

\* C32: every Manager operation releases exactly the locks it acquired: no
\* RUnlock finds the mutex unlocked, no goroutine has released more read locks
\* than it took, each call returns holding none, and m.mu is free whenever no
\* call is in progress.
C32_LocksBalanced ==
    /\ ~crashed
    /\ out.holds = 0
    /\ \A i \in DOMAIN inflight : inflight[i].holds >= 0
    /\ inflight = EmptyMap => locks.mu = Unlocked

\* the last call on the client was a StopLongPolling that returned nil
Stopped == client.api = [op |-> "StopLongPolling", err |-> ""]

\* C33: StopLongPolling returns success only after the fetch task has exited:
\* once it has returned nil (and until polling is started again) the client is
\* not connected, the polling loop has returned, and no step issues a
\* getUpdates request or publishes an update to the channel.
C33_StopWaitsForLoop ==
    [][(Stopped => /\ ~client.connected
                   /\ client.loop = "returned"
                   /\ ~client.waiting)
       /\ (Stopped /\ Stopped' => /\ feed'.received = feed.received
                                  /\ feed'.published = feed.published
                                  /\ client'.loop = "returned")]_vars

\* StopLongPolling has returned nil after the loop had fetched and published
\* an update, and more updates are waiting at the Bot API
C33_Witness ==
    /\ Stopped
    /\ client.loop = "returned"
    /\ feed.published # <<>>
    /\ Len(feed.server) > Len(feed.received)

\* C34: every network call returning in the end, once the context is
\* cancelled or the stop channel is closed the fetch task eventually exits,
\* also when it stands in its send to a full channel that nobody drains any
\* more, and once the context is cancelled the consumer eventually exits.
C34_ShutdownTerminates ==
    /\ (client.ctx = "done" \/ client.stopChan = "closed") ~> (client.loop = "returned")
    /\ (client.ctx = "done") ~> (client.consumer = "returned")

\* the loop stands in its send with the channel full, after the context was
\* cancelled and the consumer has returned
C34_Witness ==
    /\ client.loop = "range"
    /\ client.updates # <<>>
    /\ Len(script) = UpdateChannelSize
    /\ client.ctx = "done"
    /\ client.consumer = "returned"

\* the step in which a getUpdates call of the polling loop returns an error
GetUpdatesFails == client.loop = "GetUpdates" /\ client'.loop \in {"Sleep", "returned"}

\* C35: a failed getUpdates changes neither the cursor nor anything else of
\* the client and does not end the fetch task unless cancellation or stop is
\* already signalled; the backoff leads back to the top of the loop, whose
\* next request carries the offset of the failed one; and when cancellation
\* or stop is signalled before or during the backoff the task issues no
\* further getUpdates request and exits.
C35_FailedFetchRetries ==
    [][ /\ GetUpdatesFails
           => /\ client' = [client EXCEPT !.loop = client'.loop]
              /\ client'.loop = (IF Signalled(client) THEN "returned" ELSE "Sleep")
              /\ UNCHANGED <<script, feed>>
        /\ client.loop = "Sleep"
           => /\ client.params.Offset = client.offset
              /\ client'.offset = client.offset
              /\ client'.loop \in {"Sleep", "select"}
        /\ (client.loop = "select" /\ client'.loop # "select")
           => IF Signalled(client)
              THEN client'.loop = "returned"
              ELSE /\ client'.loop = "GetUpdates"
                   /\ client'.params.Offset = client.offset
                   /\ client'.offset = client.offset ]_vars

\* the loop is in its backoff after a failed call, with updates already
\* fetched, and cancellation or stop has been signalled meanwhile
C35_Witness ==
    /\ client.loop = "Sleep"
    /\ Signalled(client)
    /\ client.offset > 0
    /\ feed.published # <<>>

\* the last call on the client was a StartLongPolling that returned nil, and
\* the context given to it has not been cancelled
Started == client.api = [op |-> "StartLongPolling", err |-> ""] /\ client.ctx = "live"

\* C36: the polling client can be restarted: whenever StartLongPolling has
\* returned nil, also after an earlier StartLongPolling and StopLongPolling,
\* the fetch task it started goes on to request updates rather than
\* returning, and a StopLongPolling that passes its guard closes the stop
\* channel without a panic.
C36_Restartable ==
    [][ /\ (Started /\ client.loop = "select" /\ client'.loop # "select")
           => client'.loop = "GetUpdates"
        /\ (~client.waiting /\ client'.waiting) => ~crashed' ]_vars

\* C37: the offset given to StartLongPolling through the WithOffset option,
\* which the new goroutine has put into its params, is the offset carried by
\* the first getUpdates request that the polling loop issues.
C37_WithOffsetUsed ==
    [][(client.first /\ client.loop = "select" /\ client'.loop = "GetUpdates")
       => client'.params.Offset = client.params.Offset]_vars

\* the keys of the first k questions of a content type
FirstKeys(contentType, k) == {StepKeys(contentType)[i] : i \in 1..k}

\* C38: in the dispatcher's wizard flow for a defined content type, a session
\* at step k holds answers under exactly the keys of the first k questions of
\* its type, and the message that answers question k (the current one) is
\* stored, text unchanged, under that question's key while every earlier
\* answer stays: no answer goes under an empty or foreign key, no question is
\* skipped and none is answered twice.
C38_AnswersFollowSteps ==
    /\ \A ct \in ContentTypes :
           /\ Cardinality(FirstKeys(ct, Len(StepKeys(ct)))) = Len(StepKeys(ct))
           /\ "" \notin FirstKeys(ct, Len(StepKeys(ct)))
    /\ [][
        /\ \A u \in DOMAIN sessions :
               sessions[u].ContentType \in ContentTypes
               => /\ DOMAIN sessions[u].Answers
                        = FirstKeys(sessions[u].ContentType, sessions[u].Step)
                  /\ Cardinality(DOMAIN sessions[u].Answers) = sessions[u].Step
        /\ (HandlerStep /\ out'.route = "wizard" /\ out'.wiz.ContentType \in ContentTypes)
           => LET before == sessions[out'.user]
                  after == out'.wiz
                  keys == StepKeys(after.ContentType)
              IN /\ after.Step = before.Step + 1
                 /\ after.Step <= Len(keys)
                 /\ after.Answers = MapSet(before.Answers, keys[after.Step], out'.text)
                 /\ keys[after.Step] \notin DOMAIN before.Answers
                 /\ DOMAIN after.Answers = FirstKeys(after.ContentType, after.Step)
                 /\ "" \notin DOMAIN after.Answers ]_vars

\* a poem wizard has its first three questions answered and is waiting for
\* the fourth
C38_Witness ==
    /\ out.route = "wizard"
    /\ out.user \in DOMAIN sessions
    /\ sessions[out.user] = out.wiz
    /\ out.wiz.ContentType = ContentTypePoem
    /\ out.wiz.Step = 3
    /\ DOMAIN out.wiz.Answers = FirstKeys(ContentTypePoem, 3)
    /\ out.wiz.Answers[StepKeys(ContentTypePoem)[3]] = out.text

\* C39: with the single consumer of the update channel, one HandleUpdate
\* running at a time, no user's processing flag is raised when a HandleUpdate
\* begins, so isProcessing returns false each time handleMessage evaluates it
\* and the "still processing your previous message" rejection is never taken.
C39_NeverBusy ==
    /\ \A u \in Users : ~isProcessing(Handler, u)
    /\ out.route # "busy"

\* a free text sent after the rate-limit interval went through the completion
\* flow, which evaluated isProcessing, raised the sender's flag and lowered
\* it again on return
C39_Witness ==
    /\ out.route = "chat"
    /\ \E i \in DOMAIN out.calls : out.calls[i] = "isProcessing"
    /\ out.user \in DOMAIN processing
    /\ ~processing[out.user]
    /\ now >= rateLimit
    /\ lastMessageTime[out.user] = now

\* goroutine i, inside a guard operation, can take its next step: it is not
\* waiting for a mutex, or the mutex it waits for can be had
CanStep(i) ==
    CASE inflight[i].pc = "RLock" -> RLockable(locks[MutexAt(i)])
      [] inflight[i].pc \in {"Lock", "LockInner"} -> LockAnnounceable(locks[MutexAt(i)])
      [] inflight[i].pc \in {"Wait", "WaitInner"} -> Lockable(locks[MutexAt(i)])
      [] OTHER -> TRUE

\* goroutine i is asking for a mutex
Acquiring(i) == inflight[i].pc \in {"RLock", "Lock", "Wait", "LockInner", "WaitInner"}

\* C40: the handler's two guard mutexes are only ever taken singly or nested
\* in the order processing-flag mutex, then rate-limit mutex; no interleaving
\* of concurrent checkRateLimit, updateRateLimit, isProcessing and
\* setProcessing calls, for the same or for different users, deadlocks; and
\* every such call eventually returns.
C40_GuardLocks ==
    /\ [](\A i \in DOMAIN inflight :
             /\ Acquiring(i) => /\ "rateLimitMu" \notin inflight[i].holds
                                /\ MutexAt(i) \notin inflight[i].holds
             /\ (Acquiring(i) /\ inflight[i].holds # {})
                    => inflight[i].holds = {"processingMu"} /\ MutexAt(i) = "rateLimitMu")
    /\ [](~crashed /\ (inflight # EmptyMap => \E i \in DOMAIN inflight : CanStep(i)))
    /\ \A i \in Goroutines : (i \in DOMAIN inflight) ~> (i \notin DOMAIN inflight)

\* setProcessing(false) holds both mutexes while another goroutine waits in
\* checkRateLimit for the rate-limit mutex and a third in isProcessing for the
\* processing-flag mutex
C40_Witness ==
    \E i, j, k \in DOMAIN inflight :
        /\ inflight[i].pc = "stamp"
        /\ inflight[i].holds = {"processingMu", "rateLimitMu"}
        /\ inflight[j].op = "checkRateLimit" /\ inflight[j].pc = "RLock"
        /\ inflight[k].op = "isProcessing" /\ inflight[k].pc = "RLock"

=============================================================================
